---------------------------- MODULE Spec2Model ----------------------------
(***************************************************************************)
(* A model of the core of fridge-to-fork: the strict-JSON parser, the       *)
(* schema validator and the one-correction retry controller around the     *)
(* text generation backend (src/core/shopping_list.py), the ingredient     *)
(* normalizer, the inventory merge and the inventory handlers              *)
(* (src/client.py), the detector's vocabulary and label resolution         *)
(* (src/yolo_service.py), the recipe ingredient extractor and the recipe   *)
(* generator (src/core/recipe.py), the missing-ingredient matcher, the     *)
(* image reader (src/core/vision.py), the detection client                 *)
(* (src/utils/yolo_client.py) and the detection service under concurrent   *)
(* requests.                                                               *)
(*                                                                         *)
(* Strings are sequences of one-character strings.  A JSON value is a node *)
(* [k |-> kind, v |-> payload] with kind one of str, num, bool, null,      *)
(* list, map; the payload of a str is its characters, of a list its        *)
(* element nodes, of a map a function from its keys to nodes.              *)
(***************************************************************************)
EXTENDS Integers, Sequences, FiniteSets, TLC

VARIABLES
    pc,            \* position of the running operation
    user_message,  \* argument of generate_shopping_list_json
    inventory,     \* argument: the caller's inventory list
    history,       \* argument: optional conversation history
    requests,      \* prompts sent to the generation backend, in order
    raw,           \* stripped text of the first response
    raw2,          \* stripped text of the corrective response
    result,        \* returned value of the operation (NoResult before / on failure)
    error,         \* raised error of the operation (NoError when none)
    data,          \* candidate object handed to validate_shopping_list
    item,          \* candidate entry handed to _validate_item
    verdict,       \* (ok, msg) returned by the validator under study
    normalizer,    \* the module whose _normalize_ingredient is under study
    ingredient,    \* argument of _normalize_ingredient
    normalized,    \* its result
    renormalized,  \* the result of normalizing the result
    existing,      \* argument of merge_ingredients
    new_items,     \* argument of merge_ingredients
    merged,        \* merge_ingredients(existing, new_items)
    swapped,       \* merge_ingredients(new_items, existing)
    remerged,      \* merge_ingredients(merged, new_items)
    inventory_file,     \* content of inventory.json (NoFile when absent)
    ontology_file,      \* content of the ontology file
    _alias_to_canonical, \* module global of yolo_service (None until loaded)
    _prompt_list,       \* module global of yolo_service (None until loaded)
    detections,         \* class names of the boxes of one prediction, in order
    labels,             \* "labels" of the response of detect
    recipe_text,        \* argument of extract_recipe_ingredients
    ingredients,        \* its result
    needed,             \* argument of the matcher: the recipe's required items
    missing,            \* the matcher's result
    recipe_ingredients, \* argument "ingredients" of ingredients_to_recipe
    failure,            \* what the backend raised inside the operation (NoError when nothing)
    stream_requests,    \* prompts sent to the streaming generation backend, in order
    fragments,          \* text fragments the streaming mode has handed to its caller
    label_list,         \* the label list a detection response carries
    via_labels,         \* detect_ingredients of the response carrying it under "labels"
    via_ingredients_detected, \* ... under "ingredients_detected"
    tpc,                \* per request thread of the detection service: its position
    seen                \* per request thread: the vocabulary it read after _load_ontology

\* the variables of the shopping-list generator and validator, but pc
shoppingVars == <<user_message, inventory, history, requests, raw, raw2,
              result, error, data, item, verdict>>

\* the variables of the normalizer
normVars == <<normalizer, ingredient, normalized, renormalized>>

\* the variables of the inventory merge and of the inventory file
invVars == <<existing, new_items, merged, swapped, remerged, inventory_file>>

\* the variables of the detector's vocabulary
ontoVars == <<ontology_file, _alias_to_canonical, _prompt_list, detections, labels>>

\* the variables of the recipe ingredient extractor
extractVars == <<recipe_text, ingredients>>

\* the variables of the missing-ingredient matcher (its inventory argument
\* is the variable inventory)
matchVars == <<needed, missing>>

\* the variables of ingredients_to_recipe, image_to_ingredients and the
\* streaming mode of the shopping list
coreVars == <<recipe_ingredients, failure, stream_requests, fragments>>

\* the variables of the detection client
clientVars == <<label_list, via_labels, via_ingredients_detected>>

\* the variables of the request threads of the detection service
threadVars == <<tpc, seen>>

more == <<matchVars, coreVars, clientVars, threadVars>>

ext == <<normVars, invVars, ontoVars, extractVars, more>>

vars == <<pc, shoppingVars, ext>>

NoFile == "absent"
\* the ontology file: absent, not JSON, or an object given as the sequence
\* of its (canonical, value) members
NoOntology == [kind |-> "absent", entries |-> <<>>]
InvalidJson == [kind |-> "invalid", entries |-> <<>>]
Ontology(entries) == [kind |-> "object", entries |-> entries]

\* a module global: None, or a value
None == [none |-> TRUE, val |-> <<>>]
Some(x) == [none |-> FALSE, val |-> x]

NormIdle ==
    /\ normalizer = ""
    /\ ingredient = <<>>
    /\ normalized = <<>>
    /\ renormalized = <<>>

InvIdle ==
    /\ existing = <<>>
    /\ new_items = <<>>
    /\ merged = <<>>
    /\ swapped = <<>>
    /\ remerged = <<>>
    /\ inventory_file = NoFile

OntoIdle ==
    /\ ontology_file = NoOntology
    /\ _alias_to_canonical = None
    /\ _prompt_list = None
    /\ detections = <<>>
    /\ labels = <<>>

ExtractIdle ==
    /\ recipe_text = <<>>
    /\ ingredients = <<>>

MatchIdle ==
    /\ needed = <<>>
    /\ missing = <<>>

---------------------------------------------------------------------------
(* Characters and strings                                                  *)

Space == " "
Tab == "\t"
Newline == "\n"
\* the bullet character U+2022, written as a token
Bullet == "U+2022"

IsSpace(c) == c \in {Space, Tab, Newline}

IsDigit(c) == c \in {"0", "1", "2", "3", "4", "5", "6", "7", "8", "9"}

\* the character class [-*<U+2022>\d\.\)\s] of _normalize_ingredient
IsBullet(c) == c \in {"-", "*", Bullet, ".", ")"} \/ IsDigit(c) \/ IsSpace(c)

\* str.lower() on one character
LowerChar(c) ==
    CASE c = "A" -> "a"
      [] c = "B" -> "b"
      [] c = "G" -> "g"
      [] c = "M" -> "m"
      [] OTHER -> c

Lower(s) == [i \in 1..Len(s) |-> LowerChar(s[i])]

RECURSIVE LStrip(_)
LStrip(s) == IF s # <<>> /\ IsSpace(Head(s)) THEN LStrip(Tail(s)) ELSE s

RECURSIVE RStrip(_)
RStrip(s) ==
    IF s # <<>> /\ IsSpace(s[Len(s)]) THEN RStrip(SubSeq(s, 1, Len(s) - 1)) ELSE s

\* str.strip()
Strip(s) == RStrip(LStrip(s))

\* re.sub(r"^[-*<U+2022>\d\.\)\s]+", "", s)
RECURSIVE DropBullets(_)
DropBullets(s) == IF s # <<>> /\ IsBullet(Head(s)) THEN DropBullets(Tail(s)) ELSE s

\* re.sub(r"\s+", " ", s)
RECURSIVE CollapseSpaces(_)
CollapseSpaces(s) ==
    IF s = <<>> THEN <<>>
    ELSE IF IsSpace(Head(s))
         THEN <<Space>> \o CollapseSpaces(LStrip(Tail(s)))
         ELSE <<Head(s)>> \o CollapseSpaces(Tail(s))

\* _normalize_ingredient that removes a single leading bullet character
_normalize_ingredientOneBullet(s) ==
    LET s1 == Lower(Strip(s))
        s2 == Strip(IF s1 # <<>> /\ IsBullet(Head(s1)) THEN Tail(s1) ELSE s1)
    IN  CollapseSpaces(s2)

_normalize_ingredient(s) ==
    LET s1 == Lower(Strip(s))
        s2 == Strip(DropBullets(s1))
    IN  CollapseSpaces(s2)

RECURSIVE DedupeLoop(_, _)
DedupeLoop(items, normed) ==
    IF items = <<>> THEN normed
    ELSE LET n == _normalize_ingredient(Head(items))
         IN  IF n = <<>> THEN DedupeLoop(Tail(items), normed)
             ELSE IF \E j \in 1..Len(normed) : normed[j] = n
                  THEN DedupeLoop(Tail(items), normed)
                  ELSE DedupeLoop(Tail(items), Append(normed, n))

_dedupe_normalized(items) == DedupeLoop(items, <<>>)

\* "\n".join(f"- {x}" for x in items)
RECURSIVE _format_list(_)
_format_list(items) ==
    IF items = <<>> THEN <<>>
    ELSE <<"-", Space>> \o Head(items)
         \o (IF Tail(items) = <<>> THEN <<>> ELSE <<Newline>> \o _format_list(Tail(items)))

---------------------------------------------------------------------------
(* JSON values as produced by json.loads                                   *)

Str(s) == [k |-> "str", v |-> s]
Num == [k |-> "num", v |-> <<>>]
Bool == [k |-> "bool", v |-> <<>>]
Null == [k |-> "null", v |-> <<>>]
List(xs) == [k |-> "list", v |-> xs]
Map(f) == [k |-> "map", v |-> f]

\* isinstance(x, str), isinstance(x, list), isinstance(x, dict), x is None
IsStr(n) == n.k = "str"
IsList(n) == n.k = "list"
IsDict(n) == n.k = "map"
IsNone(n) == n.k = "null"

\* isinstance(x, (int, float)): Python's bool is a subclass of int
IsIntOrFloat(n) == n.k \in {"num", "bool"}

---------------------------------------------------------------------------
(* Validation messages: the message template, the path it is built from,   *)
(* the key names it lists and the item name it quotes                      *)

NoIdx == 0 - 1

Msg(what, key, idx, field, lists, name) ==
    [what |-> what, key |-> key, idx |-> idx, field |-> field,
     lists |-> lists, name |-> name]

\* the pair (True, "ok")
OkVerdict == [ok |-> TRUE, msg |-> Msg("ok", "", NoIdx, "", {}, <<>>)]

Fail(m) == [ok |-> FALSE, msg |-> m]

\* the path f"{k}[{i}]"
Path(key, idx) == [key |-> key, idx |-> idx]

ItemMsg(what, path, field) == Msg(what, path.key, path.idx, field, {}, <<>>)

required_top_keys == {"dish", "missing_items", "optional_items", "already_have", "notes"}

required == {"name", "quantity", "unit", "category", "priority", "substitutions"}

MustStr == <<"m", "u", "s", "t">>
NiceToHaveStr == <<"n", "i", "c", "e", "_", "t", "o", "_", "h", "a", "v", "e">>

\* any(not isinstance(x, str) for x in xs)
AnyNotStr(xs) == \E j \in 1..Len(xs) : ~IsStr(xs[j])

_validate_item(it, path) ==
    IF ~IsDict(it) THEN Fail(ItemMsg("must be an object", path, ""))
    ELSE IF DOMAIN it.v # required
    THEN Fail(Msg("keys must be exactly", path.key, path.idx, "", required, <<>>))
    ELSE IF ~IsStr(it.v["name"]) \/ Strip(it.v["name"].v) = <<>>
    THEN Fail(ItemMsg("must be a non-empty string", path, "name"))
    ELSE IF ~IsNone(it.v["quantity"]) /\ ~IsIntOrFloat(it.v["quantity"])
    THEN Fail(ItemMsg("must be a number or null", path, "quantity"))
    ELSE IF ~IsNone(it.v["unit"]) /\ ~IsStr(it.v["unit"])
    THEN Fail(ItemMsg("must be a string or null", path, "unit"))
    ELSE IF ~IsStr(it.v["category"]) \/ Strip(it.v["category"].v) = <<>>
    THEN Fail(ItemMsg("must be a non-empty string", path, "category"))
    ELSE IF ~(IsStr(it.v["priority"]) /\ it.v["priority"].v \in {MustStr, NiceToHaveStr})
    THEN Fail(ItemMsg("must be \"must\" or \"nice_to_have\"", path, "priority"))
    ELSE IF ~IsList(it.v["substitutions"]) \/ AnyNotStr(it.v["substitutions"].v)
    THEN Fail(ItemMsg("must be a list of strings", path, "substitutions"))
    ELSE OkVerdict

\* item.get("name", "") of an item that passed _validate_item
ItemName(it) == it.v["name"].v

\* ItemsLoop that looks the raw name up in the inventory, without normalizing it
RECURSIVE ItemsLoopRawName(_, _, _, _)
ItemsLoopRawName(key, items, i, inv_norm) ==
    IF i > Len(items) THEN OkVerdict
    ELSE LET r == _validate_item(items[i], Path(key, i - 1))
         IN  IF ~r.ok THEN r
             ELSE IF key = "missing_items" /\ ItemName(items[i]) \in inv_norm
             THEN Fail(Msg("is already in inventory; move it to \"already_have\"",
                           key, i - 1, "name", {}, ItemName(items[i])))
             ELSE ItemsLoopRawName(key, items, i + 1, inv_norm)

\* ItemsLoop that numbers the entries from one in the path handed to
\* _validate_item
RECURSIVE ItemsLoopOneBased(_, _, _, _)
ItemsLoopOneBased(key, items, i, inv_norm) ==
    IF i > Len(items) THEN OkVerdict
    ELSE LET r == _validate_item(items[i], Path(key, i))
         IN  IF ~r.ok THEN r
             ELSE IF key = "missing_items"
                     /\ _normalize_ingredient(ItemName(items[i])) \in inv_norm
             THEN Fail(Msg("is already in inventory; move it to \"already_have\"",
                           key, i - 1, "name", {}, ItemName(items[i])))
             ELSE ItemsLoopOneBased(key, items, i + 1, inv_norm)

\* the inner loop "for i, item in enumerate(data[k])" from position i on
RECURSIVE ItemsLoop(_, _, _, _)
ItemsLoop(key, items, i, inv_norm) ==
    IF i > Len(items) THEN OkVerdict
    ELSE LET r == _validate_item(items[i], Path(key, i - 1))
         IN  IF ~r.ok THEN r
             ELSE IF key = "missing_items"
                     /\ _normalize_ingredient(ItemName(items[i])) \in inv_norm
             THEN Fail(Msg("is already in inventory; move it to \"already_have\"",
                           key, i - 1, "name", {}, ItemName(items[i])))
             ELSE ItemsLoop(key, items, i + 1, inv_norm)

\* the loops over already_have and notes from position i on
RECURSIVE StringsLoop(_, _, _)
StringsLoop(key, xs, i) ==
    IF i > Len(xs) THEN OkVerdict
    ELSE IF ~IsStr(xs[i]) THEN Fail(Msg("must be a string", key, i - 1, "", {}, <<>>))
    ELSE StringsLoop(key, xs, i + 1)

\* set(_dedupe_normalized(inventory))
InvNorm(inv) == LET d == _dedupe_normalized(inv) IN {d[j] : j \in 1..Len(d)}

\* TopLevelChecks that looks at "dish" before the key set
TopLevelChecksDishFirst(d) ==
    IF "dish" \in DOMAIN d.v /\ (~IsStr(d.v["dish"]) \/ Strip(d.v["dish"].v) = <<>>)
    THEN Fail(Msg("must be a non-empty string", "dish", NoIdx, "", {}, <<>>))
    ELSE IF DOMAIN d.v # required_top_keys
    THEN Fail(Msg("Top-level keys must be exactly", "", NoIdx, "", required_top_keys, <<>>))
    ELSE IF ~IsList(d.v["missing_items"])
    THEN Fail(Msg("must be a list", "missing_items", NoIdx, "", {}, <<>>))
    ELSE IF ~IsList(d.v["optional_items"])
    THEN Fail(Msg("must be a list", "optional_items", NoIdx, "", {}, <<>>))
    ELSE IF ~IsList(d.v["already_have"])
    THEN Fail(Msg("must be a list", "already_have", NoIdx, "", {}, <<>>))
    ELSE IF ~IsList(d.v["notes"])
    THEN Fail(Msg("must be a list", "notes", NoIdx, "", {}, <<>>))
    ELSE OkVerdict

TopLevelChecks(d) ==
    IF DOMAIN d.v # required_top_keys
    THEN Fail(Msg("Top-level keys must be exactly", "", NoIdx, "", required_top_keys, <<>>))
    ELSE IF ~IsStr(d.v["dish"]) \/ Strip(d.v["dish"].v) = <<>>
    THEN Fail(Msg("must be a non-empty string", "dish", NoIdx, "", {}, <<>>))
    ELSE IF ~IsList(d.v["missing_items"])
    THEN Fail(Msg("must be a list", "missing_items", NoIdx, "", {}, <<>>))
    ELSE IF ~IsList(d.v["optional_items"])
    THEN Fail(Msg("must be a list", "optional_items", NoIdx, "", {}, <<>>))
    ELSE IF ~IsList(d.v["already_have"])
    THEN Fail(Msg("must be a list", "already_have", NoIdx, "", {}, <<>>))
    ELSE IF ~IsList(d.v["notes"])
    THEN Fail(Msg("must be a list", "notes", NoIdx, "", {}, <<>>))
    ELSE OkVerdict

\* ElementChecks that walks already_have before optional_items
ElementChecksStringsEarly(d, inv) ==
    LET inv_norm == InvNorm(inv)
        r1 == ItemsLoop("missing_items", d.v["missing_items"].v, 1, inv_norm)
        r2 == ItemsLoop("optional_items", d.v["optional_items"].v, 1, inv_norm)
        r3 == StringsLoop("already_have", d.v["already_have"].v, 1)
        r4 == StringsLoop("notes", d.v["notes"].v, 1)
    IN  IF ~r1.ok THEN r1
        ELSE IF ~r3.ok THEN r3
        ELSE IF ~r2.ok THEN r2
        ELSE r4

ElementChecks(d, inv) ==
    LET inv_norm == InvNorm(inv)
        r1 == ItemsLoop("missing_items", d.v["missing_items"].v, 1, inv_norm)
        r2 == ItemsLoop("optional_items", d.v["optional_items"].v, 1, inv_norm)
        r3 == StringsLoop("already_have", d.v["already_have"].v, 1)
        r4 == StringsLoop("notes", d.v["notes"].v, 1)
    IN  IF ~r1.ok THEN r1
        ELSE IF ~r2.ok THEN r2
        ELSE IF ~r3.ok THEN r3
        ELSE r4

validate_shopping_list(d, inv) ==
    LET top == TopLevelChecks(d)
    IN  IF ~top.ok THEN top ELSE ElementChecks(d, inv)

---------------------------------------------------------------------------
(* Model output text.  A text is a sequence of segments:                   *)
(*   ws     a run of whitespace                                            *)
(*   noise  prose without braces that is not JSON                          *)
(*   open   prose that starts with "{" and has no "}"                      *)
(*   close  prose that ends with "}" and has no "{"                        *)
(*   json   one well-formed JSON value j; a value that is not an object    *)
(*          (a number, a string, a list of numbers) holds no brace         *)

Seg(t, j) == [t |-> t, j |-> j]
WsSeg == Seg("ws", Null)
NoiseSeg == Seg("noise", Null)
OpenSeg == Seg("open", Null)
CloseSeg == Seg("close", Null)
JsonSeg(j) == Seg("json", j)

RECURSIVE LStripText(_)
LStripText(t) == IF t # <<>> /\ Head(t).t = "ws" THEN LStripText(Tail(t)) ELSE t

RECURSIVE RStripText(_)
RStripText(t) ==
    IF t # <<>> /\ t[Len(t)].t = "ws" THEN RStripText(SubSeq(t, 1, Len(t) - 1)) ELSE t

\* text.strip()
StripText(t) == RStripText(LStripText(t))

HasOpenBrace(sg) == sg.t = "open" \/ (sg.t = "json" /\ IsDict(sg.j))
HasCloseBrace(sg) == sg.t = "close" \/ (sg.t = "json" /\ IsDict(sg.j))

\* text.find("{") and text.rfind("}") as segment positions, 0 for -1
FindOpen(t) ==
    IF \E i \in 1..Len(t) : HasOpenBrace(t[i])
    THEN CHOOSE i \in 1..Len(t) :
             HasOpenBrace(t[i]) /\ \A j \in 1..(i - 1) : ~HasOpenBrace(t[j])
    ELSE 0

RFindClose(t) ==
    IF \E i \in 1..Len(t) : HasCloseBrace(t[i])
    THEN CHOOSE i \in 1..Len(t) :
             HasCloseBrace(t[i]) /\ \A j \in (i + 1)..Len(t) : ~HasCloseBrace(t[j])
    ELSE 0

\* json.loads(text): the text is one JSON value, whitespace around it allowed
JsonLoads(t) ==
    LET body == StripText(t)
    IN  IF Len(body) = 1 /\ body[1].t = "json"
        THEN [ok |-> TRUE, obj |-> body[1].j]
        ELSE [ok |-> FALSE, obj |-> Null]

Parsed(obj) == [ok |-> TRUE, obj |-> obj, type |-> "", text |-> ""]
ParseError(type, text) == [ok |-> FALSE, obj |-> Null, type |-> type, text |-> text]

_parse_strict_json(t) ==
    IF t = <<>> THEN ParseError("ValueError", "Empty model output; expected JSON")
    ELSE LET direct == JsonLoads(t)
         IN  IF direct.ok
             THEN IF ~IsDict(direct.obj)
                  THEN ParseError("ValueError", "Top-level JSON must be an object")
                  ELSE Parsed(direct.obj)
             ELSE LET start == FindOpen(t)
                      end == RFindClose(t)
                  IN  IF start = 0 \/ end = 0 \/ end < start
                      THEN ParseError("ValueError",
                                      "Model output is not JSON (no object braces found)")
                      ELSE LET candidate == JsonLoads(SubSeq(t, start, end))
                           IN  IF ~candidate.ok
                               THEN ParseError("JSONDecodeError", "json.loads(candidate)")
                               ELSE IF ~IsDict(candidate.obj)
                               THEN ParseError("ValueError", "Top-level JSON must be an object")
                               ELSE Parsed(candidate.obj)

---------------------------------------------------------------------------
(* Prompts: the template with the values that fill its slots               *)

NoMsg == Msg("", "", NoIdx, "", {}, <<>>)

UpperChar(c) ==
    CASE c = "u" -> "U"
      [] c = "a" -> "A"
      [] OTHER -> c

Upper(s) == [i \in 1..Len(s) |-> UpperChar(s[i])]

\* history[-4:]
LastFour(h) == IF Len(h) <= 4 THEN h ELSE SubSeq(h, Len(h) - 3, Len(h))

\* "\n".join(f"{m['role'].upper()}: {m['content']}" for m in h)
RECURSIVE JoinHistory(_)
JoinHistory(h) ==
    IF h = <<>> THEN <<>>
    ELSE Upper(Head(h).role) \o <<":", Space>> \o Head(h).content
         \o (IF Tail(h) = <<>> THEN <<>> ELSE <<Newline>> \o JoinHistory(Tail(h)))

\* the local user_message after the history block of lines 119-127
WithHistory(um, h) ==
    LET history_txt == IF h # <<>> THEN Strip(JoinHistory(LastFour(h))) ELSE <<>>
    IN  IF history_txt # <<>>
        THEN um \o <<Newline, Newline, "Conversation context:", Newline>> \o history_txt
        ELSE um

\* SHOPPING_LIST_PROMPT_TEMPLATE.format(inv=inv, user_message=user_message.strip())
GenerationPrompt(inv, um) ==
    [template |-> "SHOPPING_LIST_PROMPT_TEMPLATE", inv |-> inv, user |-> Strip(um),
     validation_error |-> NoMsg, bad_output |-> <<>>]

\* a corrective prompt that names neither the error nor the rejected output
_build_correction_promptGeneric(inv, um, bad_output, validation_error) ==
    [template |-> "correction", inv |-> inv, user |-> um,
     validation_error |-> NoMsg, bad_output |-> <<>>]

_build_correction_prompt(inv, um, bad_output, validation_error) ==
    [template |-> "correction", inv |-> inv, user |-> um,
     validation_error |-> validation_error, bad_output |-> bad_output]

---------------------------------------------------------------------------
(* generate_shopping_list_json: one invocation, blocking on the backend    *)

NoResult == Null
NoError == [type |-> "", text |-> "", msg |-> NoMsg]
Raise(type, text, msg) == [type |-> type, text |-> text, msg |-> msg]

CoreIdle ==
    /\ recipe_ingredients = <<>>
    /\ failure = NoError
    /\ stream_requests = <<>>
    /\ fragments = <<>>

ClientIdle ==
    /\ label_list = <<>>
    /\ via_labels = <<>>
    /\ via_ingredients_detected = <<>>

ThreadIdle ==
    /\ tpc = <<>>
    /\ seen = <<>>

MoreIdle == MatchIdle /\ CoreIdle /\ ClientIdle /\ ThreadIdle

\* the components other than the shopping-list generator are at rest
ExtIdle == NormIdle /\ InvIdle /\ OntoIdle /\ ExtractIdle /\ MoreIdle

\* Begin with the corrective request sent along with the first one
BeginSendsBoth ==
    /\ pc = "start"
    /\ user_message # <<>> /\ Strip(user_message) # <<>>
    /\ LET inv == _format_list(_dedupe_normalized(inventory))
           um == WithHistory(user_message, history)
       IN  requests' = <<GenerationPrompt(inv, um),
                         _build_correction_prompt(inv, um, <<>>, NoMsg)>>
    /\ pc' = "call1"
    /\ UNCHANGED <<ext, user_message, inventory, history, raw, raw2, result, error,
                   data, item, verdict>>

\* Begin that dedupes and normalizes the caller's inventory list in place
BeginDedupesInPlace ==
    /\ pc = "start"
    /\ IF user_message = <<>> \/ Strip(user_message) = <<>>
       THEN /\ pc' = "failed"
            /\ error' = Raise("ValueError", "user_message cannot be empty", NoMsg)
            /\ UNCHANGED <<requests, inventory>>
       ELSE LET inv == _format_list(_dedupe_normalized(inventory))
                um == WithHistory(user_message, history)
            IN  /\ requests' = Append(requests, GenerationPrompt(inv, um))
                /\ inventory' = _dedupe_normalized(inventory)
                /\ pc' = "call1"
                /\ UNCHANGED error
    /\ UNCHANGED <<ext, user_message, history, raw, raw2, result, data, item, verdict>>

\* lines 111-134: input check, prompt, first generation call
Begin ==
    /\ pc = "start"
    /\ IF user_message = <<>> \/ Strip(user_message) = <<>>
       THEN /\ pc' = "failed"
            /\ error' = Raise("ValueError", "user_message cannot be empty", NoMsg)
            /\ UNCHANGED requests
       ELSE LET inv == _format_list(_dedupe_normalized(inventory))
                um == WithHistory(user_message, history)
            IN  /\ requests' = Append(requests, GenerationPrompt(inv, um))
                /\ pc' = "call1"
                /\ UNCHANGED error
    /\ UNCHANGED <<ext, user_message, inventory, history, raw, raw2, result, data, item, verdict>>

\* lines 134-146 and 153: the first response arrives.  A completion of None
\* becomes "" by (... or ""), the same as the empty text.
FirstResponse(text) ==
    LET raw1 == StripText(text)
        p == _parse_strict_json(raw1)
        v == validate_shopping_list(p.obj, inventory)
    IN  /\ raw' = raw1
        /\ IF ~p.ok
           THEN /\ pc' = "failed"
                /\ error' = Raise(p.type, p.text, NoMsg)
                /\ UNCHANGED <<requests, result>>
           ELSE IF ~v.ok
           THEN /\ requests' = Append(requests,
                       _build_correction_prompt(
                           _format_list(_dedupe_normalized(inventory)),
                           WithHistory(user_message, history), raw1, v.msg))
                /\ pc' = "call2"
                /\ UNCHANGED <<error, result>>
           ELSE /\ pc' = "done"
                /\ result' = p.obj
                /\ UNCHANGED <<requests, error>>
        /\ UNCHANGED <<ext, user_message, inventory, history, raw2, data, item, verdict>>

\* SecondResponse that asks the backend again when the corrective response is bad
SecondResponseRetriesAgain(text) ==
    LET r2 == StripText(text)
        p == _parse_strict_json(r2)
        v == validate_shopping_list(p.obj, inventory)
    IN  /\ raw2' = r2
        /\ IF ~p.ok \/ ~v.ok
           THEN /\ requests' = Append(requests, requests[Len(requests)])
                /\ pc' = "call2"
                /\ UNCHANGED <<result, error>>
           ELSE /\ pc' = "done"
                /\ result' = p.obj
                /\ UNCHANGED <<requests, error>>
        /\ UNCHANGED <<ext, user_message, inventory, history, raw, data, item, verdict>>

\* SecondResponse that returns the corrective object without validating it
SecondResponseUnchecked(text) ==
    LET r2 == StripText(text)
        p == _parse_strict_json(r2)
    IN  /\ raw2' = r2
        /\ IF ~p.ok
           THEN /\ pc' = "failed"
                /\ error' = Raise(p.type, p.text, NoMsg)
                /\ UNCHANGED result
           ELSE /\ pc' = "done"
                /\ result' = p.obj
                /\ UNCHANGED error
        /\ UNCHANGED <<ext, user_message, inventory, history, requests, raw, data, item, verdict>>

\* SecondResponse that raises with the first attempt's message (msg for msg2)
SecondResponseFirstMessage(text) ==
    LET r2 == StripText(text)
        p == _parse_strict_json(r2)
        v == validate_shopping_list(p.obj, inventory)
        v1 == validate_shopping_list(_parse_strict_json(raw).obj, inventory)
    IN  /\ raw2' = r2
        /\ IF ~p.ok
           THEN /\ pc' = "failed"
                /\ error' = Raise(p.type, p.text, NoMsg)
                /\ UNCHANGED result
           ELSE IF ~v.ok
           THEN /\ pc' = "failed"
                /\ error' = Raise("ValueError", "Invalid shopping list JSON after retry", v1.msg)
                /\ UNCHANGED result
           ELSE /\ pc' = "done"
                /\ result' = p.obj
                /\ UNCHANGED error
        /\ UNCHANGED <<ext, user_message, inventory, history, requests, raw, data, item, verdict>>

\* SecondResponse that returns data (the first object) for data2
SecondResponseReturnsFirst(text) ==
    LET r2 == StripText(text)
        p == _parse_strict_json(r2)
        v == validate_shopping_list(p.obj, inventory)
    IN  /\ raw2' = r2
        /\ IF ~p.ok
           THEN /\ pc' = "failed"
                /\ error' = Raise(p.type, p.text, NoMsg)
                /\ UNCHANGED result
           ELSE IF ~v.ok
           THEN /\ pc' = "failed"
                /\ error' = Raise("ValueError", "Invalid shopping list JSON after retry", v.msg)
                /\ UNCHANGED result
           ELSE /\ pc' = "done"
                /\ result' = _parse_strict_json(raw).obj
                /\ UNCHANGED error
        /\ UNCHANGED <<ext, user_message, inventory, history, requests, raw, data, item, verdict>>

\* lines 146-151: the corrective response arrives
SecondResponse(text) ==
    LET r2 == StripText(text)
        p == _parse_strict_json(r2)
        v == validate_shopping_list(p.obj, inventory)
    IN  /\ raw2' = r2
        /\ IF ~p.ok
           THEN /\ pc' = "failed"
                /\ error' = Raise(p.type, p.text, NoMsg)
                /\ UNCHANGED result
           ELSE IF ~v.ok
           THEN /\ pc' = "failed"
                /\ error' = Raise("ValueError", "Invalid shopping list JSON after retry", v.msg)
                /\ UNCHANGED result
           ELSE /\ pc' = "done"
                /\ result' = p.obj
                /\ UNCHANGED error
        /\ UNCHANGED <<ext, user_message, inventory, history, requests, raw, data, item, verdict>>

---------------------------------------------------------------------------
(* Inputs: inventories, requests, histories, candidate objects, texts      *)

MaxSegs == 2
MaxItems == 2

\* "g" stands for garlic, "m" for milk.  An inventory of None is replaced by
\* [] at lines 113-114 and is the empty inventory here.
Inventories ==
    { <<>>,
      << <<"-", Space, "G">>, <<Space>>, <<"g">> >>,
      << <<"m">>, <<"1", ".", Space, "g">> >> }

UserMessages == { <<>>, <<Space>>, <<Space, "h", "i">> }

Histories == { <<>>, << [role |-> <<"u">>, content |-> <<"o", "k">>] >> }

ItemFields(ks, n, q, u, c, p, sub) ==
    [f \in ks |->
        CASE f = "name" -> n
          [] f = "quantity" -> q
          [] f = "unit" -> u
          [] f = "category" -> c
          [] f = "priority" -> p
          [] f = "substitutions" -> sub
          [] OTHER -> Null]

GoodItem(name) ==
    Map(ItemFields(required, Str(name), Num, Null, Str(<<"p">>), Str(MustStr), List(<<>>)))

UrgentItem(name) ==
    Map(ItemFields(required, Str(name), Null, Str(<<"k", "g">>), Str(<<"p">>),
                   Str(<<"u", "r", "g", "e", "n", "t">>), List(<<Str(<<"m">>)>>)))

TopFields(ks, dish, mi, oi, ah, notes) ==
    [f \in ks |->
        CASE f = "dish" -> dish
          [] f = "missing_items" -> mi
          [] f = "optional_items" -> oi
          [] f = "already_have" -> ah
          [] f = "notes" -> notes
          [] OTHER -> Null]

Dish == Str(<<"d">>)

\* the objects the backend answers with in the controller runs
ObjNothingMissing ==
    Map(TopFields(required_top_keys, Dish, List(<<>>), List(<<GoodItem(<<"m">>)>>),
                  List(<<Str(<<"g">>)>>), List(<<>>)))
ObjMissingMilk ==
    Map(TopFields(required_top_keys, Dish, List(<<GoodItem(<<"m">>)>>), List(<<>>),
                  List(<<>>), List(<<Str(<<"n">>)>>)))
ObjMissingGarlic ==
    Map(TopFields(required_top_keys, Dish, List(<<GoodItem(<<"G", Space>>)>>), List(<<>>),
                  List(<<>>), List(<<>>)))
ObjNoNotes ==
    Map(TopFields(required_top_keys \ {"notes"}, Dish, List(<<>>), List(<<>>),
                  List(<<>>), List(<<>>)))
ObjUrgent ==
    Map(TopFields(required_top_keys, Dish, List(<<UrgentItem(<<"b">>)>>), List(<<>>),
                  List(<<>>), List(<<>>)))

BackendObjects ==
    {ObjNothingMissing, ObjMissingMilk, ObjMissingGarlic, ObjNoNotes, ObjUrgent}

Segs ==
    {WsSeg, NoiseSeg, OpenSeg, CloseSeg, JsonSeg(Num)}
        \cup {JsonSeg(o) : o \in BackendObjects}

\* the completion strings the backend may return
Texts == UNION {[1..n -> Segs] : n \in 0..MaxSegs}

---------------------------------------------------------------------------
(* The backend and the specification of one invocation                     *)

NoVerdict == [ok |-> FALSE, msg |-> NoMsg]

Init ==
    /\ pc = "start"
    /\ ExtIdle
    /\ user_message \in UserMessages
    /\ inventory \in Inventories
    /\ history \in Histories
    /\ requests = <<>>
    /\ raw = <<>>
    /\ raw2 = <<>>
    /\ result = NoResult
    /\ error = NoError
    /\ data = Null
    /\ item = Null
    /\ verdict = NoVerdict

\* chat_text_only returns the completion of the first request
Reply1 ==
    /\ pc = "call1"
    /\ \E text \in Texts : FirstResponse(text)

\* chat_text_only returns the completion of the corrective request
Reply2 ==
    /\ pc = "call2"
    /\ \E text \in Texts : SecondResponse(text)

\* chat_text_only raises: timeout, HTTP failure or a response without "response"
BackendError ==
    /\ pc \in {"call1", "call2"}
    /\ pc' = "failed"
    /\ failure' = Raise("RequestException", "API request failed", NoMsg)
    /\ error' = failure'
    /\ UNCHANGED <<normVars, invVars, ontoVars, extractVars, matchVars, clientVars,
                   threadVars, recipe_ingredients, stream_requests, fragments,
                   user_message, inventory, history, requests, raw, raw2, result,
                   data, item, verdict>>

Next == Begin \/ Reply1 \/ Reply2 \/ BackendError

Spec == Init /\ [][Next]_vars

---------------------------------------------------------------------------
(* Properties of one invocation of generate_shopping_list_json             *)

\* what the first and the corrective response parse and validate to
Parse1 == _parse_strict_json(raw)
Parse2 == _parse_strict_json(raw2)
Valid1 == validate_shopping_list(Parse1.obj, inventory)
Valid2 == validate_shopping_list(Parse2.obj, inventory)

\* the first response has been received and processed
FirstReceived ==
    \/ pc \in {"call2", "done"}
    \/ pc = "failed" /\ Len(requests) = 2
    \/ pc = "failed" /\ Len(requests) = 1 /\ error.type # "RequestException"

\* the corrective response has been received and processed
SecondReceived ==
    /\ Len(requests) = 2
    /\ \/ pc = "done"
       \/ pc = "failed" /\ error.type # "RequestException"

\* C1: an invocation makes at most two generation calls: the first is the
\* generation request, the second, if any, the corrective request; there is
\* never a third.
C1_AtMostTwoCalls ==
    /\ Len(requests) <= 2
    /\ Len(requests) >= 1 => requests[1].template = "SHOPPING_LIST_PROMPT_TEMPLATE"
    /\ Len(requests) = 2 => requests[2].template = "correction"

\* both calls were made and the corrective response was bad as well
C1_Witness ==
    /\ pc = "failed"
    /\ SecondReceived
    /\ Parse2.ok /\ ~Valid2.ok

\* C2: when the first response cannot be parsed into a JSON object, the
\* invocation does not fail before the one corrective request has been made.
C2_ParseFailureIsRetried ==
    (FirstReceived /\ ~Parse1.ok) => (pc # "failed" \/ Len(requests) = 2)

\* C3: a returned result passes validate_shopping_list against the inventory
\* of the call, and no missing_items entry of it has a normalized name that
\* is in the normalized inventory.
C3_ResultIsValid ==
    pc = "done" =>
        /\ validate_shopping_list(result, inventory).ok
        /\ \A i \in 1..Len(result.v["missing_items"].v) :
               _normalize_ingredient(result.v["missing_items"].v[i].v["name"].v)
                   \notin InvNorm(inventory)

\* a result with a missing item is returned by the corrective attempt while
\* the inventory is not empty
C3_Witness ==
    /\ pc = "done"
    /\ Len(requests) = 2
    /\ inventory # <<>>
    /\ result.v["missing_items"].v # <<>>

\* C4: when both attempts fail, nothing is returned and the error raised is
\* the one of the corrective attempt: its parse error, or the "after retry"
\* error carrying the second validation message.
C4_ErrorOfSecondAttempt ==
    (pc = "failed" /\ SecondReceived) =>
        /\ result = NoResult
        /\ IF ~Parse2.ok
           THEN error = Raise(Parse2.type, Parse2.text, NoMsg)
           ELSE error = Raise("ValueError", "Invalid shopping list JSON after retry",
                              Valid2.msg)

\* both attempts failed validation, with different messages
C4_Witness ==
    /\ pc = "failed"
    /\ SecondReceived
    /\ Parse2.ok
    /\ error.msg = Valid2.msg
    /\ Valid1.msg # Valid2.msg

\* C5: the corrective request exists only once the first response has been
\* received, parsed and judged invalid, so never while the first call is
\* outstanding; a first response that validates ends the invocation after
\* one call with the first parsed object as the result.
C5_Sequential ==
    /\ Len(requests) = 2 =>
           /\ pc # "call1"
           /\ FirstReceived /\ Parse1.ok /\ ~Valid1.ok
    /\ (FirstReceived /\ Parse1.ok /\ Valid1.ok) =>
           /\ pc = "done"
           /\ Len(requests) = 1
           /\ result = Parse1.obj

\* the corrective call is outstanding
C5_Witness ==
    /\ pc = "call2"
    /\ Len(requests) = 2
    /\ Parse1.ok /\ ~Valid1.ok

\* C6: when the first response fails validation and the corrective response
\* parses and validates, the invocation returns the object of the corrective
\* response, not the first one, after exactly two calls.
C6_SecondObjectReturned ==
    (SecondReceived /\ Parse1.ok /\ ~Valid1.ok /\ Parse2.ok /\ Valid2.ok) =>
        /\ pc = "done"
        /\ Len(requests) = 2
        /\ result = Parse2.obj
        /\ result # Parse1.obj

\* the first response was schema-valid but named an item of the inventory,
\* the corrective one validated
C6_Witness ==
    /\ pc = "done"
    /\ Len(requests) = 2
    /\ Valid1.msg.field = "name"
    /\ result = Parse2.obj

---------------------------------------------------------------------------
(* validate_shopping_list on its own: candidate objects with several       *)
(* violations at once                                                      *)

TopKeySets ==
    {required_top_keys, required_top_keys \ {"notes"}, required_top_keys \cup {"extra"}}

DishValues == {Dish, Str(<<Space>>), Num}

\* entries of missing_items / optional_items: two good items, one with a bad
\* priority, one that is no object
EntryValues ==
    {GoodItem(<<"G", Space>>), GoodItem(<<"m">>), UrgentItem(<<"g">>), Str(<<"g">>)}

EntryLists(n) == UNION {[1..k -> EntryValues] : k \in 0..n}

NotAList == Str(<<"x">>)

\* the values of missing_items and optional_items: at most MaxItems entries
\* in the two lists together, or something that is no list
ItemListPairs ==
    {<<List(p[1]), List(p[2])>> :
        p \in {q \in EntryLists(MaxItems) \X EntryLists(MaxItems) :
                  Len(q[1]) + Len(q[2]) <= MaxItems}}
    \cup {<<NotAList, List(oi)>> : oi \in EntryLists(MaxItems)}
    \cup {<<List(mi), NotAList>> : mi \in EntryLists(MaxItems)}
    \cup {<<NotAList, NotAList>>}

\* the values of already_have and notes
StringListValues ==
    {NotAList, List(<<>>), List(<<Str(<<"g">>)>>), List(<<Str(<<"g">>), Num>>)}

Candidates ==
    {Map(TopFields(ks, d, p[1], p[2], ah, n)) :
        ks \in TopKeySets, d \in DishValues, p \in ItemListPairs,
        ah \in StringListValues, n \in StringListValues}

InitValidate ==
    /\ pc = "validate"
    /\ ExtIdle
    /\ data \in Candidates
    /\ inventory \in Inventories
    /\ user_message = <<>>
    /\ history = <<>>
    /\ requests = <<>>
    /\ raw = <<>>
    /\ raw2 = <<>>
    /\ result = NoResult
    /\ error = NoError
    /\ item = Null
    /\ verdict = NoVerdict

\* one call validate_shopping_list(data, inventory)
Validate ==
    /\ pc = "validate"
    /\ verdict' = validate_shopping_list(data, inventory)
    /\ pc' = "validated"
    /\ UNCHANGED <<ext, user_message, inventory, history, requests, raw, raw2, result,
                   error, data, item>>

NextValidate == Validate

SpecValidate == InitValidate /\ [][NextValidate]_vars

---------------------------------------------------------------------------
(* Properties of validate_shopping_list                                    *)

SchemaOk(d) == validate_shopping_list(d, <<>>).ok

\* the positions of the missing_items entries whose normalized name is in
\* the normalized inventory
InInventory(d, inv) ==
    {i \in 1..Len(d.v["missing_items"].v) :
        _normalize_ingredient(d.v["missing_items"].v[i].v["name"].v) \in InvNorm(inv)}

\* C9: a candidate that satisfies the schema is rejected exactly when some
\* missing_items entry has a normalized name in the normalized inventory;
\* the error then names the first such entry, quotes its name and tells to
\* move it to already_have.
C9_InventoryInvariant ==
    (pc = "validated" /\ SchemaOk(data)) =>
        /\ ~verdict.ok <=> InInventory(data, inventory) # {}
        /\ ~verdict.ok =>
               /\ verdict.msg.what = "is already in inventory; move it to \"already_have\""
               /\ verdict.msg.key = "missing_items"
               /\ verdict.msg.field = "name"
               /\ verdict.msg.idx + 1 \in InInventory(data, inventory)
               /\ \A j \in InInventory(data, inventory) : verdict.msg.idx + 1 <= j
               /\ verdict.msg.name = data.v["missing_items"].v[verdict.msg.idx + 1].v["name"].v

\* a schema-valid candidate is rejected for an entry whose raw name differs
\* from the inventory entry and matches only after normalization
C9_Witness ==
    /\ pc = "validated"
    /\ SchemaOk(data)
    /\ ~verdict.ok
    /\ verdict.msg.name = <<"G", Space>>
    /\ verdict.msg.idx = 1

---------------------------------------------------------------------------
(* The order of the checks.  A position is a pair (stage, index) taken as  *)
(* a number: stage 0 the key set, 1 dish, 2 the list types, 3              *)
(* missing_items[index], 4 optional_items[index], 5 already_have[index],   *)
(* 6 notes[index].                                                         *)

Pos(stage, index) == stage * 100 + index

KeySetPos == Pos(0, 0)
DishPos == Pos(1, 0)
ListTypePos == Pos(2, 0)
MissingPos == Pos(3, 0)
OptionalPos == Pos(4, 0)
AlreadyHavePos == Pos(5, 0)
NotesPos == Pos(6, 0)

HasList(d, key) == key \in DOMAIN d.v /\ IsList(d.v[key])

\* every place of the candidate where a rule of the schema, or the
\* inventory rule, is broken
Violations(d, inv) ==
    (IF DOMAIN d.v # required_top_keys THEN {KeySetPos} ELSE {})
    \cup (IF "dish" \in DOMAIN d.v /\ (~IsStr(d.v["dish"]) \/ Strip(d.v["dish"].v) = <<>>)
          THEN {DishPos} ELSE {})
    \cup (IF \E key \in {"missing_items", "optional_items", "already_have", "notes"} :
                 key \in DOMAIN d.v /\ ~IsList(d.v[key])
          THEN {ListTypePos} ELSE {})
    \cup (IF HasList(d, "missing_items")
          THEN {MissingPos + i - 1 : i \in
                   {j \in 1..Len(d.v["missing_items"].v) :
                       LET e == d.v["missing_items"].v[j]
                       IN  \/ ~_validate_item(e, Path("missing_items", j - 1)).ok
                           \/ _normalize_ingredient(e.v["name"].v) \in InvNorm(inv)}}
          ELSE {})
    \cup (IF HasList(d, "optional_items")
          THEN {OptionalPos + i - 1 : i \in
                   {j \in 1..Len(d.v["optional_items"].v) :
                       ~_validate_item(d.v["optional_items"].v[j],
                                       Path("optional_items", j - 1)).ok}}
          ELSE {})
    \cup (IF HasList(d, "already_have")
          THEN {AlreadyHavePos + i - 1 : i \in
                   {j \in 1..Len(d.v["already_have"].v) : ~IsStr(d.v["already_have"].v[j])}}
          ELSE {})
    \cup (IF HasList(d, "notes")
          THEN {NotesPos + i - 1 : i \in
                   {j \in 1..Len(d.v["notes"].v) : ~IsStr(d.v["notes"].v[j])}}
          ELSE {})

\* the position a message speaks about
ReportedPos(msg) ==
    CASE msg.what = "Top-level keys must be exactly" -> KeySetPos
      [] msg.key = "dish" -> DishPos
      [] msg.what = "must be a list" -> ListTypePos
      [] msg.key = "missing_items" /\ msg.idx >= 0 -> MissingPos + msg.idx
      [] msg.key = "optional_items" /\ msg.idx >= 0 -> OptionalPos + msg.idx
      [] msg.key = "already_have" /\ msg.idx >= 0 -> AlreadyHavePos + msg.idx
      [] msg.key = "notes" /\ msg.idx >= 0 -> NotesPos + msg.idx
      [] OTHER -> 0 - 1

\* C10: validate reports one error, the first violation in the order
\* top-level (key set, dish, list types), missing_items by index,
\* optional_items by index, already_have, notes: no violation stands before
\* the reported one, and a candidate without violation is accepted.
C10_FirstViolationReported ==
    pc = "validated" =>
        /\ verdict.ok <=> Violations(data, inventory) = {}
        /\ ~verdict.ok =>
               /\ ReportedPos(verdict.msg) \in Violations(data, inventory)
               /\ \A q \in Violations(data, inventory) : ReportedPos(verdict.msg) <= q

\* a candidate with violations in optional_items, already_have and notes:
\* the one in optional_items is reported
C10_Witness ==
    /\ pc = "validated"
    /\ ~verdict.ok
    /\ verdict.msg.key = "optional_items"
    /\ verdict.msg.idx = 1
    /\ AlreadyHavePos + 1 \in Violations(data, inventory)
    /\ NotesPos + 1 \in Violations(data, inventory)

\* the candidate d with the priority of entry i of list key set to "must"
WithPriorityMust(d, key, i) ==
    [k |-> "map",
     v |-> [d.v EXCEPT ![key] =
              [k |-> "list",
               v |-> [d.v[key].v EXCEPT ![i] =
                        [k |-> "map",
                         v |-> [d.v[key].v[i].v EXCEPT !["priority"] = Str(MustStr)]]]]]]

\* entry i of list key has a priority outside {"must", "nice_to_have"} and
\* the candidate breaks no other rule: with that priority repaired nothing
\* is left to report
OnlyBadPriority(d, inv, key, i) ==
    /\ DOMAIN d.v = required_top_keys
    /\ HasList(d, key)
    /\ i \in 1..Len(d.v[key].v)
    /\ IsDict(d.v[key].v[i])
    /\ DOMAIN d.v[key].v[i].v = required
    /\ ~(IsStr(d.v[key].v[i].v["priority"])
         /\ d.v[key].v[i].v["priority"].v \in {MustStr, NiceToHaveStr})
    /\ Violations(WithPriorityMust(d, key, i), inv) = {}

\* C11: a candidate whose only violation is a priority outside
\* {must, nice_to_have} in entry i of missing_items or optional_items is
\* rejected, and the field path of the error is that entry's priority:
\* the list's key, the zero-based index i, the field "priority".
C11_PriorityPath ==
    pc = "validated" =>
        \A key \in {"missing_items", "optional_items"} :
            \A i \in 1..MaxItems :
                OnlyBadPriority(data, inventory, key, i) =>
                    /\ ~verdict.ok
                    /\ verdict.msg.what = "must be \"must\" or \"nice_to_have\""
                    /\ verdict.msg.key = key
                    /\ verdict.msg.idx = i - 1
                    /\ verdict.msg.field = "priority"

\* the second entry of missing_items carries the priority "urgent" and
\* nothing else is wrong: the error speaks of missing_items[1].priority
C11_Witness ==
    /\ pc = "validated"
    /\ OnlyBadPriority(data, inventory, "missing_items", 2)
    /\ verdict.msg.key = "missing_items"
    /\ verdict.msg.idx = 1
    /\ verdict.msg.field = "priority"

---------------------------------------------------------------------------
(* _validate_item on its own: every combination of field values            *)

ItemKeySets == {required, required \ {"unit"}, required \cup {"extra"}}

NameValues == {Str(<<"g">>), Str(<<Space>>), Str(<<>>), Num}

QuantityValues ==
    {Null, Num, Bool, Str(<<"1">>), List(<<Num>>), Map([value |-> Num])}

UnitValues == {Null, Str(<<"k", "g">>), Str(<<>>), Num}

CategoryValues == {Str(<<"p">>), Str(<<Space>>), Null}

PriorityValues ==
    {Str(MustStr), Str(NiceToHaveStr), Str(<<"u", "r", "g", "e", "n", "t">>),
     Str(<<"M", "u", "s", "t">>), Null}

SubstitutionValues ==
    {List(<<>>), List(<<Str(<<"m">>)>>), List(<<Str(<<"m">>), Num>>), Str(<<"m">>), Null}

ItemSpace ==
    {Map(ItemFields(ks, n, q, u, c, p, sub)) :
        ks \in ItemKeySets, n \in NameValues, q \in QuantityValues, u \in UnitValues,
        c \in CategoryValues, p \in PriorityValues, sub \in SubstitutionValues}
    \cup {Str(<<"g">>), Null, List(<<>>)}

InitItem ==
    /\ pc = "item"
    /\ ExtIdle
    /\ item \in ItemSpace
    /\ inventory = <<>>
    /\ user_message = <<>>
    /\ history = <<>>
    /\ requests = <<>>
    /\ raw = <<>>
    /\ raw2 = <<>>
    /\ result = NoResult
    /\ error = NoError
    /\ data = Null
    /\ verdict = NoVerdict

\* one call _validate_item(item, path) from the loop of validate_shopping_list
ValidateItem ==
    /\ pc = "item"
    /\ \E key \in {"missing_items", "optional_items"} :
           verdict' = _validate_item(item, Path(key, 0))
    /\ pc' = "item_done"
    /\ UNCHANGED <<ext, user_message, inventory, history, requests, raw, raw2, result,
                   error, data, item>>

NextItem == ValidateItem

SpecItem == InitItem /\ [][NextItem]_vars

\* the schema of an entry as the claim words it; "non-empty" read as
\* "not blank", the reading that follows the code
EntrySchema(it) ==
    /\ IsDict(it)
    /\ DOMAIN it.v = {"name", "quantity", "unit", "category", "priority", "substitutions"}
    /\ it.v["name"].k = "str" /\ Strip(it.v["name"].v) # <<>>
    /\ it.v["quantity"].k \in {"null", "num"}
    /\ it.v["unit"].k \in {"null", "str"}
    /\ it.v["category"].k = "str" /\ Strip(it.v["category"].v) # <<>>
    /\ it.v["priority"].k = "str" /\ it.v["priority"].v \in {MustStr, NiceToHaveStr}
    /\ it.v["substitutions"].k = "list"
    /\ \A j \in 1..Len(it.v["substitutions"].v) : it.v["substitutions"].v[j].k = "str"

\* C8: an entry is accepted if and only if it is an object with exactly the
\* six keys, a non-empty string name, a quantity that is null or a number
\* (not a string, boolean, list or map), a unit that is null or a string, a
\* non-empty string category, a priority of "must" or "nice_to_have" and a
\* list of strings as substitutions.
C8_EntryAcceptedIffSchema ==
    pc = "item_done" => (verdict.ok <=> EntrySchema(item))

---------------------------------------------------------------------------
(* The normalizer on its own: _normalize_ingredient of shopping_list.py    *)
(* and its copy in recipe.py, applied to a string and to its own result    *)

MaxLen == 3

NormChars == {"g", "G", Space, Tab, "-", "1", "."}

\* all strings over the set of characters cs of length at most n
RECURSIVE StringsUpTo(_, _)
StringsUpTo(cs, n) ==
    IF n = 0 THEN {<<>>}
    ELSE StringsUpTo(cs, n - 1)
         \cup {<<c>> \o w : c \in cs, w \in {x \in StringsUpTo(cs, n - 1) : Len(x) = n - 1}}

\* core/recipe.py's copy of the normalizer
recipe_normalize_ingredient(s) ==
    LET s1 == Lower(Strip(s))
        s2 == Strip(DropBullets(s1))
    IN  CollapseSpaces(s2)

\* the normalizer of module m
NormalizeIn(m, s) ==
    IF m = "shopping_list" THEN _normalize_ingredient(s) ELSE recipe_normalize_ingredient(s)

InitNormalize ==
    /\ pc = "normalize"
    /\ normalizer \in {"shopping_list", "recipe"}
    /\ ingredient \in StringsUpTo(NormChars, MaxLen)
    /\ normalized = <<>>
    /\ renormalized = <<>>
    /\ user_message = <<>>
    /\ inventory = <<>>
    /\ history = <<>>
    /\ requests = <<>>
    /\ raw = <<>>
    /\ raw2 = <<>>
    /\ result = NoResult
    /\ error = NoError
    /\ data = Null
    /\ item = Null
    /\ verdict = NoVerdict
    /\ InvIdle /\ OntoIdle /\ ExtractIdle /\ MoreIdle

\* one call _normalize_ingredient(ingredient)
Normalize ==
    /\ pc = "normalize"
    /\ normalized' = NormalizeIn(normalizer, ingredient)
    /\ pc' = "normalized"
    /\ UNCHANGED <<more, shoppingVars, normalizer, ingredient, renormalized,
                   invVars, ontoVars, extractVars>>

\* a second call, on the result of the first
NormalizeAgain ==
    /\ pc = "normalized"
    /\ renormalized' = NormalizeIn(normalizer, normalized)
    /\ pc' = "renormalized"
    /\ UNCHANGED <<more, shoppingVars, normalizer, ingredient, normalized,
                   invVars, ontoVars, extractVars>>

NextNormalize == Normalize \/ NormalizeAgain

SpecNormalize == InitNormalize /\ [][NextNormalize]_vars

\* s has the normalized shape: no surrounding whitespace, no leading
\* bullet or enumeration character, no upper-case letter, and no
\* whitespace other than single spaces between words
NormalShape(s) ==
    /\ s # <<>> => ~IsSpace(s[1]) /\ ~IsSpace(s[Len(s)]) /\ ~IsBullet(s[1])
    /\ \A i \in 1..Len(s) : LowerChar(s[i]) = s[i]
    /\ \A i \in 1..Len(s) : IsSpace(s[i]) => s[i] = Space
    /\ \A i \in 1..(Len(s) - 1) : ~(IsSpace(s[i]) /\ IsSpace(s[i + 1]))

\* C12: normalize is idempotent, normalize(normalize(s)) = normalize(s), and
\* its result has no leading bullet or enumeration character, no upper-case
\* letter, no whitespace run longer than one space and no surrounding
\* whitespace.
C12_NormalizeIdempotent ==
    /\ pc \in {"normalized", "renormalized"} => NormalShape(normalized)
    /\ pc = "renormalized" => renormalized = normalized

\* an enumerated, capitalised, tab-separated entry was normalized to two
\* words and normalizing again left it as it was
C12_Witness ==
    /\ pc = "renormalized"
    /\ ingredient # normalized
    /\ normalized = <<"g", Space, "g">>
    /\ \E i \in 1..Len(ingredient) : ingredient[i] = Tab
    /\ renormalized = normalized

---------------------------------------------------------------------------
(* The inventory of the web page (src/client.py): merge_ingredients on     *)
(* its own, and the handlers that rewrite inventory.json                   *)

MaxList == 2

\* ord(c) of the characters that occur in the model's strings
Ord(c) ==
    CASE c = Tab -> 9
      [] c = Newline -> 10
      [] c = Space -> 32
      [] c = ")" -> 41
      [] c = "*" -> 42
      [] c = "-" -> 45
      [] c = "." -> 46
      [] c = "1" -> 49
      [] c = "G" -> 71
      [] c = "M" -> 77
      [] c = "g" -> 103
      [] c = "m" -> 109
      [] c = Bullet -> 8226
      [] OTHER -> 0

\* a < b for Python strings: by code point, a proper prefix first
RECURSIVE StrLess(_, _)
StrLess(a, b) ==
    IF b = <<>> THEN FALSE
    ELSE IF a = <<>> THEN TRUE
    ELSE IF Head(a) = Head(b) THEN StrLess(Tail(a), Tail(b))
    ELSE Ord(Head(a)) < Ord(Head(b))

\* sorted(S) of a set of strings
RECURSIVE Sorted(_)
Sorted(S) ==
    IF S = {} THEN <<>>
    ELSE LET least == CHOOSE x \in S : \A y \in S : x = y \/ StrLess(x, y)
         IN  <<least>> \o Sorted(S \ {least})

Elems(xs) == {xs[j] : j \in 1..Len(xs)}

\* list(dict.fromkeys(xs)): the first occurrences, in order
RECURSIVE FirstOccurrences(_)
FirstOccurrences(xs) ==
    IF xs = <<>> THEN <<>>
    ELSE LET front == FirstOccurrences(SubSeq(xs, 1, Len(xs) - 1))
         IN  IF xs[Len(xs)] \in Elems(front) THEN front ELSE Append(front, xs[Len(xs)])

\* merge_ingredients that keeps the order of arrival instead of sorting
merge_ingredientsUnsorted(old, new) ==
    FirstOccurrences([j \in 1..(Len(old) + Len(new)) |->
                         Strip(Lower((old \o new)[j]))])

\* combined = {item.lower().strip() for item in existing + new_items}
\* return sorted(combined)
merge_ingredients(old, new) ==
    LET combined == {Strip(Lower(x)) : x \in Elems(old \o new)}
    IN  Sorted(combined)

\* lists of at most n elements of S
RECURSIVE ListsUpTo(_, _)
ListsUpTo(S, n) ==
    IF n = 0 THEN {<<>>}
    ELSE ListsUpTo(S, n - 1)
         \cup {Append(w, x) : x \in S, w \in {y \in ListsUpTo(S, n - 1) : Len(y) = n - 1}}

\* the strings handed to merge_ingredients
MergeItems ==
    {<<Space>>, <<"g">>, <<"G", Space>>, <<"m">>, <<"-", Space, "g">>}

InitMerge ==
    /\ pc = "merge"
    /\ existing \in ListsUpTo(MergeItems, MaxList)
    /\ new_items \in ListsUpTo(MergeItems, MaxList)
    /\ merged = <<>>
    /\ swapped = <<>>
    /\ remerged = <<>>
    /\ inventory_file = NoFile
    /\ user_message = <<>>
    /\ inventory = <<>>
    /\ history = <<>>
    /\ requests = <<>>
    /\ raw = <<>>
    /\ raw2 = <<>>
    /\ result = NoResult
    /\ error = NoError
    /\ data = Null
    /\ item = Null
    /\ verdict = NoVerdict
    /\ NormIdle /\ OntoIdle /\ ExtractIdle /\ MoreIdle

\* merge_ingredients(existing, new_items)
Merge ==
    /\ pc = "merge"
    /\ merged' = merge_ingredients(existing, new_items)
    /\ pc' = "merged"
    /\ UNCHANGED <<more, shoppingVars, normVars, existing, new_items, swapped, remerged,
                   inventory_file, ontoVars, extractVars>>

\* merge_ingredients(new_items, existing)
MergeSwapped ==
    /\ pc = "merged"
    /\ swapped' = merge_ingredients(new_items, existing)
    /\ pc' = "swapped"
    /\ UNCHANGED <<more, shoppingVars, normVars, existing, new_items, merged, remerged,
                   inventory_file, ontoVars, extractVars>>

\* merge_ingredients(merged, new_items)
MergeAgain ==
    /\ pc = "swapped"
    /\ remerged' = merge_ingredients(merged, new_items)
    /\ pc' = "remerged"
    /\ UNCHANGED <<more, shoppingVars, normVars, existing, new_items, merged, swapped,
                   inventory_file, ontoVars, extractVars>>

NextMerge == Merge \/ MergeSwapped \/ MergeAgain

SpecMerge == InitMerge /\ [][NextMerge]_vars

\* xs is sorted by code point and has no element twice
StrictlySorted(xs) == \A j \in 1..(Len(xs) - 1) : StrLess(xs[j], xs[j + 1])

\* C13: merge(existing, incoming) is the lexicographically sorted,
\* duplicate-free sequence of the normalized forms of the elements of both
\* inputs, every element normalized by the Normalizer and the empty ones
\* discarded.
C13_MergeNormalizes ==
    pc \in {"merged", "swapped", "remerged"} =>
        /\ StrictlySorted(merged)
        /\ Elems(merged) =
               {_normalize_ingredient(x) : x \in Elems(existing) \cup Elems(new_items)}
               \ {<<>>}

\* C14: merge is commutative and idempotent: merge(A, B) = merge(B, A) and
\* merge(merge(A, B), B) = merge(A, B).
C14_MergeCommutativeIdempotent ==
    /\ pc \in {"swapped", "remerged"} => swapped = merged
    /\ pc = "remerged" => remerged = merged

\* two lists that share an ingredient under different spellings and each
\* bring one of their own: merged either way round, and merged again
C14_Witness ==
    /\ pc = "remerged"
    /\ existing = << <<"m">>, <<"G", Space>> >>
    /\ new_items = << <<"g">>, <<"-", Space, "g">> >>
    /\ Len(merged) = 3
    /\ swapped = merged
    /\ remerged = merged

\* the names the review step of a scan hands over: labels of the vision
\* model, each put through str(item).strip().lower() and kept when not blank
ScanItems ==
    {Lower(Strip(x)) : x \in {<<"G">>, <<"m", Space>>, <<"-", Space, "g">>, <<"1", ".", "m">>}}

\* the lists of confirmed names: no name twice, at least one
Confirmed ==
    {xs \in ListsUpTo(ScanItems, MaxList) :
        xs # <<>> /\ \A i, j \in 1..Len(xs) : i # j => xs[i] # xs[j]}

\* load_inventory()
load_inventory == IF inventory_file = NoFile THEN <<>> ELSE inventory_file

\* list.remove(x): the list without the first occurrence of x
RECURSIVE Remove(_, _)
Remove(xs, x) ==
    IF xs = <<>> THEN <<>>
    ELSE IF Head(xs) = x THEN Tail(xs)
    ELSE <<Head(xs)>> \o Remove(Tail(xs), x)

InitInventory ==
    /\ pc = "page"
    /\ inventory_file = NoFile
    /\ existing = <<>>
    /\ new_items = <<>>
    /\ merged = <<>>
    /\ swapped = <<>>
    /\ remerged = <<>>
    /\ user_message = <<>>
    /\ inventory = <<>>
    /\ history = <<>>
    /\ requests = <<>>
    /\ raw = <<>>
    /\ raw2 = <<>>
    /\ result = NoResult
    /\ error = NoError
    /\ data = Null
    /\ item = Null
    /\ verdict = NoVerdict
    /\ NormIdle /\ OntoIdle /\ ExtractIdle /\ MoreIdle

\* the button "Add to Inventory": load, merge the confirmed names, save
AddToInventory ==
    /\ pc = "page"
    /\ \E confirmed \in Confirmed :
           /\ existing' = load_inventory
           /\ new_items' = confirmed
           /\ merged' = merge_ingredients(load_inventory, confirmed)
           /\ inventory_file' = merge_ingredients(load_inventory, confirmed)
    /\ UNCHANGED <<pc, more, shoppingVars, normVars, swapped, remerged, ontoVars, extractVars>>

\* the button next to one entry: remove it and save
RemoveItem ==
    /\ pc = "page"
    /\ \E j \in 1..Len(load_inventory) :
           inventory_file' = Remove(load_inventory, load_inventory[j])
    /\ UNCHANGED <<pc, more, shoppingVars, normVars, existing, new_items, merged, swapped,
                   remerged, ontoVars, extractVars>>

\* the button "Clear All", shown while the inventory has entries
ClearAll ==
    /\ pc = "page"
    /\ load_inventory # <<>>
    /\ inventory_file' = <<>>
    /\ UNCHANGED <<pc, more, shoppingVars, normVars, existing, new_items, merged, swapped,
                   remerged, ontoVars, extractVars>>

NextInventory == AddToInventory \/ RemoveItem \/ ClearAll

SpecInventory == InitInventory /\ [][NextInventory]_vars

\* C15: starting from an absent inventory, after any sequence of add,
\* single-item remove and clear-all the persisted inventory is sorted and
\* duplicate-free, and every entry is a non-empty string equal to its own
\* normalized form.
C15_InventoryNormalized ==
    inventory_file # NoFile =>
        /\ StrictlySorted(inventory_file)
        /\ \A j \in 1..Len(inventory_file) :
               /\ inventory_file[j] # <<>>
               /\ _normalize_ingredient(inventory_file[j]) = inventory_file[j]

---------------------------------------------------------------------------
(* The detector's vocabulary (src/yolo_service.py): _load_ontology and the *)
(* label post-processing of detect.  A dict is the sequence of its         *)
(* (key, value) pairs in insertion order.                                  *)

MaxEntries == 2
MaxDetections == 3

DEFAULT_CLASSES ==
    << <<"e", "g", "g">>,
       <<"m", "i", "l", "k">>,
       <<"c", "h", "e", "e", "s", "e">>,
       <<"t", "o", "m", "a", "t", "o">>,
       <<"o", "n", "i", "o", "n">>,
       <<"g", "a", "r", "l", "i", "c">>,
       <<"c", "a", "r", "r", "o", "t">>,
       <<"p", "o", "t", "a", "t", "o">>,
       <<"a", "p", "p", "l", "e">>,
       <<"b", "a", "n", "a", "n", "a">>,
       <<"o", "r", "a", "n", "g", "e">>,
       <<"l", "e", "m", "o", "n">>,
       <<"b", "r", "e", "a", "d">>,
       <<"b", "u", "t", "t", "e", "r">>,
       <<"c", "h", "i", "c", "k", "e", "n">>,
       <<"b", "e", "e", "f">>,
       <<"f", "i", "s", "h">>,
       <<"r", "i", "c", "e">>,
       <<"p", "a", "s", "t", "a">>,
       <<"f", "l", "o", "u", "r">>,
       <<"s", "u", "g", "a", "r">>,
       <<"s", "a", "l", "t">>,
       <<"p", "e", "p", "p", "e", "r">>,
       <<"o", "i", "l">>,
       <<"y", "o", "g", "u", "r", "t">>,
       <<"l", "e", "t", "t", "u", "c", "e">>,
       <<"c", "u", "c", "u", "m", "b", "e", "r">>,
       <<"b", "e", "l", "l", " ", "p", "e", "p", "p", "e", "r">>,
       <<"b", "r", "o", "c", "c", "o", "l", "i">>,
       <<"m", "u", "s", "h", "r", "o", "o", "m">>,
       <<"b", "a", "c", "o", "n">>,
       <<"s", "a", "u", "s", "a", "g", "e">>,
       <<"h", "a", "m">>,
       <<"a", "v", "o", "c", "a", "d", "o">>,
       <<"s", "t", "r", "a", "w", "b", "e", "r", "r", "y">>,
       <<"g", "r", "a", "p", "e">>,
       <<"w", "a", "t", "e", "r", "m", "e", "l", "o", "n">>,
       <<"c", "a", "b", "b", "a", "g", "e">>,
       <<"s", "p", "i", "n", "a", "c", "h">>,
       <<"c", "e", "l", "e", "r", "y">>,
       <<"c", "o", "r", "n">>,
       <<"p", "e", "a">>,
       <<"b", "e", "a", "n">>,
       <<"l", "i", "m", "e">>,
       <<"k", "i", "w", "i">> >>

PRIORITY_CANONICALS ==
    << <<"c", "a", "r", "r", "o", "t">>,
       <<"c", "a", "b", "b", "a", "g", "e">>,
       <<"c", "u", "c", "u", "m", "b", "e", "r">>,
       <<"r", "e", "d", "_", "c", "h", "i", "l", "i", "_", "p", "e", "p", "p", "e", "r">>,
       <<"c", "a", "u", "l", "i", "f", "l", "o", "w", "e", "r">>,
       <<"b", "r", "o", "c", "c", "o", "l", "i">>,
       <<"b", "e", "l", "l", "_", "p", "e", "p", "p", "e", "r">>,
       <<"e", "g", "g", "p", "l", "a", "n", "t">>,
       <<"p", "e", "a">>,
       <<"b", "l", "u", "e", "b", "e", "r", "r", "y">>,
       <<"t", "o", "m", "a", "t", "o">>,
       <<"o", "n", "i", "o", "n">> >>

Kiwi == <<"k", "i", "w", "i">>
Pea == <<"p", "e", "a">>
Carrot == <<"c", "a", "r", "r", "o", "t">>

\* a value of the ontology object: a list of aliases, or a value that
\* cannot be iterated (a number, null)
Iterable(aliases) == [iterable |-> TRUE, v |-> aliases]
NotIterable == [iterable |-> FALSE, v |-> <<>>]

\* dict operations on a sequence of pairs
HasKey(d, key) == \E j \in 1..Len(d) : d[j][1] = key
Get(d, key, default) ==
    IF HasKey(d, key) THEN d[CHOOSE j \in 1..Len(d) : d[j][1] = key][2] ELSE default

\* the keys of the ontology object, in the order of the file
Keys(entries) == [j \in 1..Len(entries) |-> entries[j][1]]

InSeq(x, xs) == \E j \in 1..Len(xs) : xs[j] = x

\* [x for x in xs if x in keep]
RECURSIVE Only(_, _)
Only(xs, keep) ==
    IF xs = <<>> THEN <<>>
    ELSE IF InSeq(Head(xs), keep) THEN <<Head(xs)>> \o Only(Tail(xs), keep)
    ELSE Only(Tail(xs), keep)

\* [x for x in xs if x not in drop]
RECURSIVE Without(_, _)
Without(xs, drop) ==
    IF xs = <<>> THEN <<>>
    ELSE IF InSeq(Head(xs), drop) THEN Without(Tail(xs), drop)
    ELSE <<Head(xs)>> \o Without(Tail(xs), drop)

\* ordered_keys that keeps the order of the file
ordered_keysFileOrder(entries) == Keys(entries)

\* ordered_keys = [k for k in PRIORITY_CANONICALS if k in data]
\* ordered_keys += [k for k in data if k not in ordered_keys]
ordered_keys(entries) ==
    LET first == Only(PRIORITY_CANONICALS, Keys(entries))
    IN  first \o Without(Keys(entries), first)

\* the state of the two globals while they are built, and whether an
\* exception stopped the build
Built(a2c, pl, raised) == [a2c |-> a2c, pl |-> pl, raised |-> raised]

\* AliasLoop without the test "a not in _alias_to_canonical"
RECURSIVE AliasLoopRemaps(_, _, _)
AliasLoopRemaps(aliases, canonical, b) ==
    IF aliases = <<>> THEN b
    ELSE LET a == Strip(Head(aliases))
         IN  IF a # <<>>
             THEN AliasLoopRemaps(Tail(aliases), canonical,
                                  Built(Append(b.a2c, <<a, canonical>>), Append(b.pl, a), FALSE))
             ELSE AliasLoopRemaps(Tail(aliases), canonical, b)

\* for alias in aliases: ...
RECURSIVE AliasLoop(_, _, _)
AliasLoop(aliases, canonical, b) ==
    IF aliases = <<>> THEN b
    ELSE LET a == Strip(Head(aliases))
         IN  IF a # <<>> /\ ~HasKey(b.a2c, a)
             THEN AliasLoop(Tail(aliases), canonical,
                            Built(Append(b.a2c, <<a, canonical>>), Append(b.pl, a), FALSE))
             ELSE AliasLoop(Tail(aliases), canonical, b)

\* for canonical in ordered_keys: ... ; iterating a value that is not
\* iterable raises, and the except clause ends the build where it stands
RECURSIVE KeyLoop(_, _, _)
KeyLoop(keys, entries, b) ==
    IF keys = <<>> THEN b
    ELSE LET aliases == Get(entries, Head(keys), NotIterable)
         IN  IF ~aliases.iterable THEN Built(b.a2c, b.pl, TRUE)
             ELSE KeyLoop(Tail(keys), entries, AliasLoop(aliases.v, Head(keys), b))

\* the body of _load_ontology after the guard: the globals it leaves
LoadedFrom(file) ==
    LET start == Built(<<>>, <<>>, FALSE)
        b == IF file.kind = "object"
             THEN KeyLoop(ordered_keys(file.entries), file.entries, start)
             ELSE start
    IN  IF b.pl = <<>>
        THEN Built([j \in 1..Len(DEFAULT_CLASSES) |-> <<DEFAULT_CLASSES[j], DEFAULT_CLASSES[j]>>],
                   DEFAULT_CLASSES, b.raised)
        ELSE b

\* detect_labels that drops repeated raw labels instead of repeated canonicals
detect_labelsByRaw(names, a2c) ==
    LET raws == FirstOccurrences(SelectSeq(names, LAMBDA r : r # <<>>))
    IN  [j \in 1..Len(raws) |-> Get(a2c, raws[j], raws[j])]

\* the loop over the boxes' class names: labels and seen
RECURSIVE LabelLoop(_, _, _)
LabelLoop(names, a2c, found) ==
    IF names = <<>> THEN found
    ELSE IF Head(names) = <<>> THEN LabelLoop(Tail(names), a2c, found)
    ELSE LET canonical == Get(a2c, Head(names), Head(names))
         IN  IF InSeq(canonical, found) THEN LabelLoop(Tail(names), a2c, found)
             ELSE LabelLoop(Tail(names), a2c, Append(found, canonical))

\* the labels detect returns for the class names of the boxes
detect_labels(names, a2c) == LabelLoop(names, a2c, <<>>)

\* the values an ontology may give for the canonical c
AliasValues(c) ==
    {Iterable(<<c>>),
     Iterable(<<c \o <<"s">>, c>>),
     Iterable(<< <<Space, "x">>, c>>),
     Iterable(<< <<Space>> >>),
     NotIterable}

\* the sequences of at most n members with different canonicals
RECURSIVE EntriesUpTo(_)
EntriesUpTo(n) ==
    IF n = 0 THEN {<<>>}
    ELSE EntriesUpTo(n - 1)
         \cup {Append(es, <<c, a>>) :
                  c \in {Kiwi, Pea, Carrot},
                  a \in UNION {AliasValues(k) : k \in {Kiwi, Pea, Carrot}},
                  es \in {e \in EntriesUpTo(n - 1) : Len(e) = n - 1}}

OntologyFiles ==
    {NoOntology, InvalidJson}
    \cup {Ontology(es) : es \in
             {e \in EntriesUpTo(MaxEntries) :
                 /\ \A i, j \in 1..Len(e) : i # j => e[i][1] # e[j][1]
                 /\ \A i \in 1..Len(e) : e[i][2] \in AliasValues(e[i][1])}}

\* the class names a prediction may carry: aliases, a name the vocabulary
\* does not hold, and the empty name of a class index without a name
RawLabels == {Kiwi \o <<"s">>, Kiwi, <<"z">>, <<>>}

InitOntology ==
    /\ pc = "serving"
    /\ ontology_file \in OntologyFiles
    /\ _alias_to_canonical = None
    /\ _prompt_list = None
    /\ detections = <<>>
    /\ labels = <<>>
    /\ user_message = <<>>
    /\ inventory = <<>>
    /\ history = <<>>
    /\ requests = <<>>
    /\ raw = <<>>
    /\ raw2 = <<>>
    /\ result = NoResult
    /\ error = NoError
    /\ data = Null
    /\ item = Null
    /\ verdict = NoVerdict
    /\ NormIdle /\ InvIdle /\ ExtractIdle /\ MoreIdle

\* _load_ontology(): nothing once loaded, else both globals are built
_load_ontology ==
    IF ~_alias_to_canonical.none
    THEN UNCHANGED <<_alias_to_canonical, _prompt_list>>
    ELSE /\ _alias_to_canonical' = Some(LoadedFrom(ontology_file).a2c)
         /\ _prompt_list' = Some(LoadedFrom(ontology_file).pl)

\* GET /status: get_model() loads the vocabulary on the first call
Status ==
    /\ pc = "serving"
    /\ _load_ontology
    /\ UNCHANGED <<pc, more, shoppingVars, normVars, invVars, ontology_file, detections,
                   labels, extractVars>>

\* POST /detect: get_model(), the prediction, and the labels of its boxes
Detect ==
    /\ pc = "serving"
    /\ _load_ontology
    /\ \E names \in ListsUpTo(RawLabels, MaxDetections) :
           /\ detections' = names
           /\ labels' = detect_labels(names, _alias_to_canonical'.val)
    /\ pc' = "detected"
    /\ UNCHANGED <<more, shoppingVars, normVars, invVars, ontology_file, extractVars>>

\* the response {"labels": labels, "ingredients_detected": labels} is sent
\* and the locals of the request are gone
Respond ==
    /\ pc = "detected"
    /\ pc' = "serving"
    /\ detections' = <<>>
    /\ labels' = <<>>
    /\ UNCHANGED <<more, shoppingVars, normVars, invVars, ontology_file, _alias_to_canonical,
                   _prompt_list, extractVars>>

NextOntology == Status \/ Detect \/ Respond

SpecOntology == InitOntology /\ [][NextOntology]_vars

Loaded == ~_alias_to_canonical.none

\* the position of the first x in xs (0 when absent)
IndexOf(xs, x) ==
    IF InSeq(x, xs) THEN CHOOSE j \in 1..Len(xs) : xs[j] = x /\ \A i \in 1..(j - 1) : xs[i] # x
    ELSE 0

\* every value of the file is a list of aliases
WellFormed(file) ==
    file.kind = "object" /\ \A j \in 1..Len(file.entries) : file.entries[j][2].iterable

\* the aliases the file gives for canonical c, stripped, in the file's order
AliasesOf(file, c) ==
    LET listed == Get(file.entries, c, NotIterable).v
    IN  [j \in 1..Len(listed) |-> Strip(listed[j])]

\* all aliases of the file that are not blank
AllAliases(file) ==
    UNION {Elems(AliasesOf(file, file.entries[j][1])) : j \in 1..Len(file.entries)} \ {<<>>}

\* the place of canonical c in the prompt order: the priority canonicals in
\* the order of the priority list, then the others in the order of the file
KeyRank(file, c) ==
    IF InSeq(c, PRIORITY_CANONICALS) THEN IndexOf(PRIORITY_CANONICALS, c)
    ELSE Len(PRIORITY_CANONICALS) + IndexOf(Keys(file.entries), c)

LoadFails(file) ==
    \/ file.kind = "invalid"
    \/ file.kind = "object" /\ ~WellFormed(file)

\* C17: when the vocabulary source is absent, empty or fails to load, the
\* default vocabulary is in use in full: the prompt list is the default
\* class list and every default class maps to itself.
C17_DefaultOnFailure ==
    (Loaded /\ (\/ ontology_file.kind = "absent"
                \/ LoadFails(ontology_file)
                \/ AllAliases(ontology_file) = {})) =>
        /\ _prompt_list.val = DEFAULT_CLASSES
        /\ _alias_to_canonical.val =
               [j \in 1..Len(DEFAULT_CLASSES) |-> <<DEFAULT_CLASSES[j], DEFAULT_CLASSES[j]>>]

\* the canonical label of a raw label
Resolve(r) == Get(_alias_to_canonical.val, r, r)

\* C18: for any sequence of raw detection labels the response lists their
\* canonical labels, a known alias replaced by its canonical and an unknown
\* label passed through unchanged, each canonical once, in the order in
\* which it was first seen.
C18_ResolveBatch ==
    pc = "detected" =>
        LET named == SelectSeq(detections, LAMBDA r : r # <<>>)
            firstSeen(c) == CHOOSE j \in 1..Len(named) :
                                /\ Resolve(named[j]) = c
                                /\ \A i \in 1..(j - 1) : Resolve(named[i]) # c
        IN  /\ Elems(labels) = {Resolve(named[j]) : j \in 1..Len(named)}
            /\ \A i, j \in 1..Len(labels) :
                   i < j => /\ labels[i] # labels[j]
                            /\ firstSeen(labels[i]) < firstSeen(labels[j])

\* two aliases of kiwi around a label the vocabulary does not hold: kiwi
\* once, in first place, and the unknown label as it came
C18_Witness ==
    /\ pc = "detected"
    /\ detections = <<Kiwi \o <<"s">>, <<"z">>, Kiwi>>
    /\ HasKey(_alias_to_canonical.val, Kiwi \o <<"s">>)
    /\ labels = <<Kiwi, <<"z">> >>

---------------------------------------------------------------------------
(* The recipe ingredient extractor (src/core/recipe.py).  A recipe text is *)
(* the sequence of its lines; a line is a header or the sequence of its    *)
(* tokens, the chunks between single spaces, each with the comma that may  *)
(* follow it.  A qualifier phrase is one token.                            *)

MaxLines == 4

\* the words of the unit pattern: cups?|tablespoons?|tbsps?|teaspoons?|tsps?|
\* grams?|g|kg|ml|oz|lbs?|cloves?|slices?|pieces?|pinch|handful|bunch
UnitWords ==
    { <<"c", "u", "p">>,
      <<"c", "u", "p", "s">>,
      <<"t", "a", "b", "l", "e", "s", "p", "o", "o", "n">>,
      <<"t", "a", "b", "l", "e", "s", "p", "o", "o", "n", "s">>,
      <<"t", "b", "s", "p">>,
      <<"t", "b", "s", "p", "s">>,
      <<"t", "e", "a", "s", "p", "o", "o", "n">>,
      <<"t", "e", "a", "s", "p", "o", "o", "n", "s">>,
      <<"t", "s", "p">>,
      <<"t", "s", "p", "s">>,
      <<"g", "r", "a", "m">>,
      <<"g", "r", "a", "m", "s">>,
      <<"g">>,
      <<"k", "g">>,
      <<"m", "l">>,
      <<"o", "z">>,
      <<"l", "b">>,
      <<"l", "b", "s">>,
      <<"c", "l", "o", "v", "e">>,
      <<"c", "l", "o", "v", "e", "s">>,
      <<"s", "l", "i", "c", "e">>,
      <<"s", "l", "i", "c", "e", "s">>,
      <<"p", "i", "e", "c", "e">>,
      <<"p", "i", "e", "c", "e", "s">>,
      <<"p", "i", "n", "c", "h">>,
      <<"h", "a", "n", "d", "f", "u", "l">>,
      <<"b", "u", "n", "c", "h">> }

\* the phrases of the qualifier pattern
Qualifiers ==
    { <<"t", "o", " ", "t", "a", "s", "t", "e">>,
      <<"o", "p", "t", "i", "o", "n", "a", "l">>,
      <<"a", "s", " ", "n", "e", "e", "d", "e", "d">>,
      <<"t", "o", " ", "s", "e", "r", "v", "e">>,
      <<"f", "o", "r", " ", "s", "e", "r", "v", "i", "n", "g">>,
      <<"f", "o", "r", " ", "g", "a", "r", "n", "i", "s", "h">> }

Tok(w, comma) == [w |-> w, comma |-> comma]

\* the line "### Ingredients", a line with another "###" header, an empty
\* line, a line of tokens
IngredientsHeader == [kind |-> "ingredients", tokens |-> <<>>]
OtherHeader == [kind |-> "header", tokens |-> <<>>]
BlankLine == [kind |-> "blank", tokens |-> <<>>]
ItemLine(tokens) == [kind |-> "item", tokens |-> tokens]

\* the (.*?)(?=###|\Z) of the search that stopped only at the end of the text
SectionToEnd(lines, h) == SubSeq(lines, h + 1, Len(lines))

\* re.search(r'### Ingredients\s*\n(.*?)(?=###|\Z)', text, re.DOTALL): the
\* lines after the header at h up to the next line with "###"
Section(lines, h) ==
    LET stops == {j \in (h + 1)..Len(lines) : lines[j].kind \in {"ingredients", "header"}}
        stop == IF stops = {} THEN Len(lines) + 1
                ELSE CHOOSE j \in stops : \A i \in stops : j <= i
    IN  SubSeq(lines, h + 1, stop - 1)

\* the places where the pattern can match: a header line that a newline follows
HeaderMatches(lines) ==
    {j \in 1..(Len(lines) - 1) : lines[j].kind = "ingredients"}

\* str.lstrip('-*<U+2022> \t') on a stripped line: leading marker characters
\* go, and with them the tokens made of nothing else
RECURSIVE LStripMarkers(_)
LStripMarkers(toks) ==
    IF toks = <<>> THEN <<>>
    ELSE LET w == Head(toks).w
         IN  IF w # <<>> /\ Head(w) \in {"-", "*", Bullet}
             THEN IF Len(w) = 1 /\ ~Head(toks).comma
                  THEN LStripMarkers(Tail(toks))
                  ELSE LStripMarkers(<<Tok(Tail(w), Head(toks).comma)>> \o Tail(toks))
             ELSE toks

\* the characters of [\d/\-\.]
IsQuantityChar(c) == IsDigit(c) \/ c \in {"/", "-", "."}

RECURSIVE DropQuantityChars(_)
DropQuantityChars(w) ==
    IF w # <<>> /\ IsQuantityChar(Head(w)) THEN DropQuantityChars(Tail(w)) ELSE w

\* re.sub(r'^\d[\d/\-\.]*\s*', '', line)
StripQuantity(toks) ==
    IF toks = <<>> \/ Head(toks).w = <<>> \/ ~IsDigit(Head(Head(toks).w)) THEN toks
    ELSE LET rest == DropQuantityChars(Head(toks).w)
         IN  IF rest = <<>> /\ ~Head(toks).comma THEN Tail(toks)
             ELSE <<Tok(rest, Head(toks).comma)>> \o Tail(toks)

\* a token the unit pattern consumes: a unit word that whitespace follows
IsUnitTok(toks, j) ==
    /\ j < Len(toks)
    /\ Lower(toks[j].w) \in UnitWords
    /\ ~toks[j].comma

\* the (of\s+)? of the unit pattern
IsOfTok(toks, j) ==
    /\ j < Len(toks)
    /\ Lower(toks[j].w) = <<"o", "f">>
    /\ ~toks[j].comma

\* re.sub(unit pattern, '', line, flags=re.IGNORECASE): every match, from
\* token j on
RECURSIVE StripUnits(_, _)
StripUnits(toks, j) ==
    IF j > Len(toks) THEN <<>>
    ELSE IF IsUnitTok(toks, j)
         THEN IF IsOfTok(toks, j + 1) THEN StripUnits(toks, j + 2)
              ELSE StripUnits(toks, j + 1)
         ELSE <<toks[j]>> \o StripUnits(toks, j + 1)

\* re.sub(r',?\s*(to taste|optional|...).*$', '', line, flags=re.IGNORECASE)
StripQualifier(toks) ==
    LET hits == {j \in 1..Len(toks) : Lower(toks[j].w) \in Qualifiers}
    IN  IF hits = {} THEN toks
        ELSE LET q == CHOOSE j \in hits : \A i \in hits : j <= i
             IN  [j \in 1..(q - 1) |->
                    IF j = q - 1 THEN Tok(toks[j].w, FALSE) ELSE toks[j]]

\* the characters of a line of tokens; str.lower() on them
RECURSIVE Render(_)
Render(toks) ==
    IF toks = <<>> THEN <<>>
    ELSE Lower(Head(toks).w)
         \o (IF Head(toks).comma THEN <<",">> ELSE <<>>)
         \o (IF Tail(toks) = <<>> THEN <<>> ELSE <<Space>> \o Render(Tail(toks)))

\* the body of the loop over the lines of the section
RECURSIVE LineLoop(_, _)
LineLoop(lines, found) ==
    IF lines = <<>> THEN found
    ELSE LET line1 == LStripMarkers(Head(lines).tokens)
             line2 == StripQualifier(StripUnits(StripQuantity(line1), 1))
         IN  IF line1 = <<>> \/ line2 = <<>> THEN LineLoop(Tail(lines), found)
             ELSE LineLoop(Tail(lines), Append(found, Render(line2)))

\* extract_recipe_ingredients(text)
extract_recipe_ingredients(lines) ==
    IF HeaderMatches(lines) = {} THEN <<>>
    ELSE LET h == CHOOSE j \in HeaderMatches(lines) : \A i \in HeaderMatches(lines) : j <= i
         IN  LineLoop(Section(lines, h), <<>>)

\* "- 2 cups flour"
FlourLine ==
    ItemLine(<< Tok(<<"-">>, FALSE),
                Tok(<<"2">>, FALSE),
                Tok(<<"c", "u", "p", "s">>, FALSE),
                Tok(<<"f", "l", "o", "u", "r">>, FALSE) >>)

\* "- salt, to taste"
SaltLine ==
    ItemLine(<< Tok(<<"-">>, FALSE),
                Tok(<<"s", "a", "l", "t">>, TRUE),
                Tok(<<"t", "o", " ", "t", "a", "s", "t", "e">>, FALSE) >>)

\* "- 1 egg"
EggLine ==
    ItemLine(<< Tok(<<"-">>, FALSE),
                Tok(<<"1">>, FALSE),
                Tok(<<"e", "g", "g">>, FALSE) >>)

\* "* 1/2 tsp clove powder"
PowderLine ==
    ItemLine(<< Tok(<<"*">>, FALSE),
                Tok(<<"1", "/", "2">>, FALSE),
                Tok(<<"t", "s", "p">>, FALSE),
                Tok(<<"c", "l", "o", "v", "e">>, FALSE),
                Tok(<<"p", "o", "w", "d", "e", "r">>, FALSE) >>)

\* "Basil"
BasilLine ==
    ItemLine(<< Tok(<<"B", "a", "s", "i", "l">>, FALSE) >>)

\* "3 Grams of Garlic, optional"
GarlicLine ==
    ItemLine(<< Tok(<<"3">>, FALSE),
                Tok(<<"G", "r", "a", "m", "s">>, FALSE),
                Tok(<<"o", "f">>, FALSE),
                Tok(<<"G", "a", "r", "l", "i", "c">>, TRUE),
                Tok(<<"o", "p", "t", "i", "o", "n", "a", "l">>, FALSE) >>)

\* "- 1 1/2 cups flour"
MixedLine ==
    ItemLine(<< Tok(<<"-">>, FALSE),
                Tok(<<"1">>, FALSE),
                Tok(<<"1", "/", "2">>, FALSE),
                Tok(<<"c", "u", "p", "s">>, FALSE),
                Tok(<<"f", "l", "o", "u", "r">>, FALSE) >>)

ItemLines == {FlourLine, SaltLine, EggLine, PowderLine, BasilLine, GarlicLine, MixedLine}

\* the recipe texts: up to MaxLines lines
Recipes ==
    ListsUpTo(ItemLines \cup {IngredientsHeader, OtherHeader, BlankLine}, MaxLines)

InitExtract ==
    /\ pc = "extract"
    /\ recipe_text \in Recipes
    /\ ingredients = <<>>
    /\ user_message = <<>>
    /\ inventory = <<>>
    /\ history = <<>>
    /\ requests = <<>>
    /\ raw = <<>>
    /\ raw2 = <<>>
    /\ result = NoResult
    /\ error = NoError
    /\ data = Null
    /\ item = Null
    /\ verdict = NoVerdict
    /\ NormIdle /\ InvIdle /\ OntoIdle /\ MoreIdle

\* one call extract_recipe_ingredients(recipe_text)
Extract ==
    /\ pc = "extract"
    /\ ingredients' = extract_recipe_ingredients(recipe_text)
    /\ pc' = "extracted"
    /\ UNCHANGED <<more, shoppingVars, normVars, invVars, ontoVars, recipe_text>>

NextExtract == Extract

SpecExtract == InitExtract /\ [][NextExtract]_vars

\* line j lies in the Ingredients section: after the first Ingredients
\* header that a line follows, with no header up to and including j
InSection(lines, j) ==
    /\ \E h \in 1..(Len(lines) - 1) : lines[h].kind = "ingredients"
    /\ LET h == CHOOSE i \in 1..(Len(lines) - 1) :
                    /\ lines[i].kind = "ingredients"
                    /\ \A k \in 1..(i - 1) : lines[k].kind # "ingredients"
       IN  /\ j > h
           /\ \A k \in (h + 1)..j : lines[k].kind \notin {"ingredients", "header"}

\* the name of a line of the shape [bullet] [quantity] [unit [of]] name
\* [, qualifier], read slot by slot from the left
ShapeName(toks) ==
    LET a == IF toks # <<>> /\ Head(toks).w \in {<<"-">>, <<"*">>, <<Bullet>>}
             THEN Tail(toks) ELSE toks
        b == IF a # <<>> /\ IsDigit(Head(Head(a).w)) /\ DropQuantityChars(Head(a).w) = <<>>
             THEN Tail(a) ELSE a
        c == IF Len(b) > 1 /\ Lower(b[1].w) \in UnitWords /\ ~b[1].comma
             THEN IF Len(b) > 2 /\ Lower(b[2].w) = <<"o", "f">>
                  THEN SubSeq(b, 3, Len(b)) ELSE Tail(b)
             ELSE b
    IN  IF Len(c) > 1 /\ c[Len(c) - 1].comma /\ Lower(c[Len(c)].w) \in Qualifiers
        THEN [j \in 1..(Len(c) - 1) |-> Tok(c[j].w, FALSE)]
        ELSE c

\* the names of the lines of the section from line j on, in order
RECURSIVE NamesFrom(_, _)
NamesFrom(lines, j) ==
    IF j > Len(lines) THEN <<>>
    ELSE IF InSection(lines, j) /\ lines[j].kind = "item"
         THEN <<Render(ShapeName(lines[j].tokens))>> \o NamesFrom(lines, j + 1)
         ELSE NamesFrom(lines, j + 1)

\* C19: for an Ingredients section whose lines have the shape [bullet]
\* [quantity] [unit [of]] name[, qualifier] the extractor returns exactly
\* the ingredient names, one per non-empty line, in order, with bullet,
\* quantity, unit word and trailing qualifier removed.
C19_ExtractNames ==
    pc = "extracted" => ingredients = NamesFrom(recipe_text, 1)

\* the lines of the section
InsideLines(lines) ==
    LET RECURSIVE From(_)
        From(j) == IF j > Len(lines) THEN <<>>
                   ELSE IF InSection(lines, j) THEN <<lines[j]>> \o From(j + 1)
                   ELSE From(j + 1)
    IN  From(1)

\* C20: a text without an Ingredients header followed by a list yields the
\* empty list, with no failure; and the lines outside the section, before
\* the header or after the next header, contribute nothing: the result is
\* that of the section alone and has at most one name per line of it.
C20_OutsideLinesIgnored ==
    pc = "extracted" =>
        /\ (\A j \in 1..(Len(recipe_text) - 1) : recipe_text[j].kind # "ingredients")
               => ingredients = <<>>
        /\ ingredients =
               extract_recipe_ingredients(<<IngredientsHeader>> \o InsideLines(recipe_text))
        /\ Len(ingredients) <= Len(InsideLines(recipe_text))

\* a line before the header and a line after the next header stay out, the
\* line between them is returned
C20_Witness ==
    /\ pc = "extracted"
    /\ recipe_text = <<IngredientsHeader, EggLine, OtherHeader, FlourLine>>
    /\ ingredients = << <<"e", "g", "g">> >>

---------------------------------------------------------------------------
(* The missing-ingredient matcher: which required items of a recipe the    *)
(* inventory does not cover.  It matches on normalized names by substring  *)
(* containment and returns the required items as they were written.        *)

MaxNeeded == 2

\* the fixed pantry-staple set
PANTRY_STAPLES ==
    { <<"s", "a", "l", "t">>,
      <<"p", "e", "p", "p", "e", "r">>,
      <<"b", "l", "a", "c", "k", Space, "p", "e", "p", "p", "e", "r">>,
      <<"w", "h", "i", "t", "e", Space, "p", "e", "p", "p", "e", "r">>,
      <<"o", "i", "l">>,
      <<"o", "l", "i", "v", "e", Space, "o", "i", "l">>,
      <<"v", "e", "g", "e", "t", "a", "b", "l", "e", Space, "o", "i", "l">>,
      <<"s", "u", "g", "a", "r">>,
      <<"f", "l", "o", "u", "r">>,
      <<"b", "u", "t", "t", "e", "r">>,
      <<"w", "a", "t", "e", "r">>,
      <<"g", "a", "r", "l", "i", "c">>,
      <<"o", "n", "i", "o", "n">>,
      <<"s", "o", "y", Space, "s", "a", "u", "c", "e">>,
      <<"v", "i", "n", "e", "g", "a", "r">>,
      <<"b", "a", "k", "i", "n", "g", Space, "s", "o", "d", "a">>,
      <<"b", "a", "k", "i", "n", "g", Space, "p", "o", "w", "d", "e", "r">> }

\* needle in hay, for two strings
Contains(hay, needle) ==
    \E i \in 0..(Len(hay) - Len(needle)) : SubSeq(hay, i + 1, i + Len(needle)) = needle

IsStaple(name) == \E p \in PANTRY_STAPLES : Contains(name, p)

\* one direction only: the required name contains the inventory entry
InStockOneWay(name, inv) ==
    \E i \in 1..Len(inv) : Contains(name, inv[i])

InStock(name, inv) ==
    \E i \in 1..Len(inv) : Contains(name, inv[i]) \/ Contains(inv[i], name)

RECURSIVE MissingLoop(_, _, _, _)
MissingLoop(req, inv, i, out) ==
    IF i > Len(req) THEN out
    ELSE LET name == recipe_normalize_ingredient(req[i])
         IN  IF IsStaple(name) \/ InStock(name, inv)
             THEN MissingLoop(req, inv, i + 1, out)
             ELSE MissingLoop(req, inv, i + 1, Append(out, req[i]))

RECURSIVE MissingLoopOneWay(_, _, _, _)
MissingLoopOneWay(req, inv, i, out) ==
    IF i > Len(req) THEN out
    ELSE LET name == recipe_normalize_ingredient(req[i])
         IN  IF IsStaple(name) \/ InStockOneWay(name, inv)
             THEN MissingLoopOneWay(req, inv, i + 1, out)
             ELSE MissingLoopOneWay(req, inv, i + 1, Append(out, req[i]))

findMissingOneWay(req, inv) == MissingLoopOneWay(req, inv, 1, <<>>)

findMissing(req, inv) == MissingLoop(req, inv, 1, <<>>)

Garlic == <<"g", "a", "r", "l", "i", "c">>
GarlicCloves == <<"g", "a", "r", "l", "i", "c", Space, "c", "l", "o", "v", "e", "s">>
Scallion == <<"s", "c", "a", "l", "l", "i", "o", "n">>
GreenOnion == <<"g", "r", "e", "e", "n", Space, "o", "n", "i", "o", "n">>

\* required items as a recipe writes them
NeededItems ==
    { Garlic, Scallion, Kiwi, Pea,
      <<"B", "a", "s", "i", "l">>,
      <<"-", Space, "M", "a", "n", "g", "o">>,
      <<"s", "e", "a", Space, "s", "a", "l", "t">> }

\* inventory entries, normalized names
MatchInventoryItems ==
    { GarlicCloves, GreenOnion,
      <<"p", "e", "a", "n", "u", "t">>,
      <<"f", "r", "e", "s", "h", Space, "b", "a", "s", "i", "l">>,
      <<"m", "a", "n", "g", "o">>,
      <<"k", "i">> }

InitMatch ==
    /\ pc = "match"
    /\ needed \in ListsUpTo(NeededItems, MaxNeeded)
    /\ inventory \in ListsUpTo(MatchInventoryItems, MaxNeeded)
    /\ missing = <<>>
    /\ user_message = <<>> /\ history = <<>> /\ requests = <<>>
    /\ raw = <<>> /\ raw2 = <<>> /\ result = NoResult /\ error = NoError
    /\ data = Null /\ item = Null /\ verdict = NoVerdict
    /\ NormIdle /\ InvIdle /\ OntoIdle /\ ExtractIdle
    /\ CoreIdle /\ ClientIdle /\ ThreadIdle

FindMissing ==
    /\ pc = "match"
    /\ missing' = findMissing(needed, inventory)
    /\ pc' = "matched"
    /\ UNCHANGED <<shoppingVars, normVars, invVars, ontoVars, extractVars, needed,
                   coreVars, clientVars, threadVars>>

NextMatch == FindMissing

SpecMatch == InitMatch /\ [][NextMatch]_vars

\* an item's normalized name is covered: it names a pantry staple, or it and
\* an inventory entry contain one another
Covered(r) ==
    LET n == recipe_normalize_ingredient(r)
    IN  \/ \E p \in PANTRY_STAPLES :
              \E a, b \in 0..Len(n) : a <= b /\ SubSeq(n, a + 1, b) = p
        \/ \E e \in Elems(inventory) :
              \/ \E a, b \in 0..Len(n) : a <= b /\ SubSeq(n, a + 1, b) = e
              \/ \E a, b \in 0..Len(e) : a <= b /\ SubSeq(e, a + 1, b) = n

Uncovered(r) == ~Covered(r)

\* C21: the matcher returns exactly the required items whose normalized name
\* is neither a pantry staple by containment nor in containment, either way,
\* with an inventory entry, as they were written and in their order; garlic
\* against garlic cloves is covered, scallion against green onion is not
C21_FindMissing ==
    pc = "matched" =>
        /\ missing = SelectSeq(needed, Uncovered)
        /\ (needed = <<Garlic>> /\ inventory = <<GarlicCloves>> => missing = <<>>)
        /\ (needed = <<Scallion>> /\ inventory = <<GreenOnion>> => missing = <<Scallion>>)

\* an item written with a bullet and capitals is reported as written, after
\* an item the inventory covers only because the entry contains its name
C21_Witness ==
    /\ pc = "matched"
    /\ Len(needed) = 2
    /\ needed[1] = Pea
    /\ recipe_normalize_ingredient(needed[2]) # needed[2]
    /\ \E i \in 1..Len(inventory) : Contains(inventory[i], Pea) /\ inventory[i] # Pea
    /\ missing = <<needed[2]>>

---------------------------------------------------------------------------
(* ingredients_to_recipe (core/recipe.py), image_to_ingredients            *)
(* (core/vision.py) and stream_shopping_list_json_text                     *)
(* (core/shopping_list.py): one invocation each, next to                   *)
(* generate_shopping_list_json.  The optional dietary_restrictions and     *)
(* cuisine_type of ingredients_to_recipe keep their defaults, as in the    *)
(* call of app.py.                                                         *)

MaxIngredients == 2

\* lines 207-215: normalize, drop the empty names, keep first occurrences
RECURSIVE NormedLoop(_, _, _)
NormedLoop(ings, i, normed) ==
    IF i > Len(ings) THEN normed
    ELSE LET n == recipe_normalize_ingredient(ings[i])
         IN  IF n = <<>> \/ InSeq(n, normed)
             THEN NormedLoop(ings, i + 1, normed)
             ELSE NormedLoop(ings, i + 1, Append(normed, n))

\* CHEF_SYSTEM_PROMPT.format(inv=ingredient_list) + the default controls
RecipePrompt(normed) ==
    [template |-> "CHEF_SYSTEM_PROMPT", inv |-> _format_list(normed), user |-> <<>>,
     validation_error |-> NoMsg, bad_output |-> <<>>]

\* ingredients_to_recipe without the check of the normalized list
RecipeBeginUnchecked ==
    /\ pc = "recipe"
    /\ IF recipe_ingredients = <<>>
       THEN /\ pc' = "recipe_failed"
            /\ error' = Raise("ValueError", "Ingredients list cannot be empty", NoMsg)
            /\ UNCHANGED requests
       ELSE /\ requests' = Append(requests, RecipePrompt(NormedLoop(recipe_ingredients, 1, <<>>)))
            /\ pc' = "recipe_call"
            /\ UNCHANGED error
    /\ UNCHANGED <<normVars, invVars, ontoVars, extractVars, matchVars, coreVars, clientVars,
                   threadVars, user_message, inventory, history, raw, raw2, result,
                   data, item, verdict>>

\* lines 204-241: input checks, prompt, the generation call
RecipeBegin ==
    /\ pc = "recipe"
    /\ LET normed == NormedLoop(recipe_ingredients, 1, <<>>)
       IN  IF recipe_ingredients = <<>>
           THEN /\ pc' = "recipe_failed"
                /\ error' = Raise("ValueError", "Ingredients list cannot be empty", NoMsg)
                /\ UNCHANGED requests
           ELSE IF normed = <<>>
           THEN /\ pc' = "recipe_failed"
                /\ error' = Raise("ValueError",
                                  "No valid ingredients after normalization; check input formatting",
                                  NoMsg)
                /\ UNCHANGED requests
           ELSE /\ requests' = Append(requests, RecipePrompt(normed))
                /\ pc' = "recipe_call"
                /\ UNCHANGED error
    /\ UNCHANGED <<normVars, invVars, ontoVars, extractVars, matchVars, coreVars, clientVars,
                   threadVars, user_message, inventory, history, raw, raw2, result,
                   data, item, verdict>>

\* the completions of the recipe request
RecipeTexts == {<<>>, <<Space>>, <<"r">>, <<Newline, "r", Space>>}

\* lines 242-257: chat_text_only returns; (recipe or "").strip() is returned,
\* the empty text as ""
RecipeReply ==
    /\ pc = "recipe_call"
    /\ \E text \in RecipeTexts : result' = Str(Strip(text))
    /\ pc' = "recipe_done"
    /\ UNCHANGED <<normVars, invVars, ontoVars, extractVars, matchVars, coreVars, clientVars,
                   threadVars, user_message, inventory, history, requests, raw, raw2, error,
                   data, item, verdict>>

\* lines 243-247: chat_text_only raises; except Exception prints and returns ""
RecipeBackendError ==
    /\ pc = "recipe_call"
    /\ failure' = Raise("RequestException", "API request failed", NoMsg)
    /\ result' = Str(<<>>)
    /\ pc' = "recipe_done"
    /\ UNCHANGED <<normVars, invVars, ontoVars, extractVars, matchVars, clientVars,
                   threadVars, recipe_ingredients, stream_requests, fragments,
                   user_message, inventory, history, requests, raw, raw2, error,
                   data, item, verdict>>

\* str.splitlines, for a text whose only line break is "\n"
RECURSIVE SplitLinesFrom(_, _)
SplitLinesFrom(s, cur) ==
    IF s = <<>> THEN (IF cur = <<>> THEN <<>> ELSE <<cur>>)
    ELSE IF Head(s) = Newline THEN <<cur>> \o SplitLinesFrom(Tail(s), <<>>)
    ELSE SplitLinesFrom(Tail(s), Append(cur, Head(s)))

\* vision.py lines 66-70: the stripped non-blank lines of the response
ResponseLines(response) ==
    LET lines == SplitLinesFrom(Strip(response), <<>>)
        kept == SelectSeq(lines, LAMBDA line : Strip(line) # <<>>)
    IN  [j \in 1..Len(kept) |-> Str(Strip(kept[j]))]

ImagePrompt ==
    [template |-> "INGREDIENT_PROMPT", inv |-> <<>>, user |-> <<>>,
     validation_error |-> NoMsg, bad_output |-> <<>>]

\* the responses of the vision request
ImageResponses ==
    {<<>>, <<Newline>>, <<"e">>, <<Space, "e", Newline, Space, Newline, "m", Space>>}

\* vision.py line 58: the vision request leaves
ImageBegin ==
    /\ pc = "image"
    /\ requests' = Append(requests, ImagePrompt)
    /\ pc' = "image_call"
    /\ UNCHANGED <<normVars, invVars, ontoVars, extractVars, matchVars, coreVars, clientVars,
                   threadVars, user_message, inventory, history, raw, raw2, result, error,
                   data, item, verdict>>

\* vision.py lines 58 and 66-81: chat_with_image returns
ImageReply ==
    /\ pc = "image_call"
    /\ \E response \in ImageResponses : result' = List(ResponseLines(response))
    /\ pc' = "image_done"
    /\ UNCHANGED <<normVars, invVars, ontoVars, extractVars, matchVars, coreVars, clientVars,
                   threadVars, user_message, inventory, history, requests, raw, raw2, error,
                   data, item, verdict>>

\* vision.py lines 57-62: the call raises (the file is not there, the request
\* fails or times out, the response has no "response"; vision.py does not
\* import chat_with_image, and an unbound name raises here as well); except
\* Exception returns []
ImageBackendError ==
    /\ pc = "image_call"
    /\ failure' = Raise("RequestException", "API request failed", NoMsg)
    /\ result' = List(<<>>)
    /\ pc' = "image_done"
    /\ UNCHANGED <<normVars, invVars, ontoVars, extractVars, matchVars, clientVars,
                   threadVars, recipe_ingredients, stream_requests, fragments,
                   user_message, inventory, history, requests, raw, raw2, error,
                   data, item, verdict>>

\* shopping_list.py lines 167-186: input check, prompt, the streaming request
StreamBegin ==
    /\ pc = "stream"
    /\ IF user_message = <<>> \/ Strip(user_message) = <<>>
       THEN /\ pc' = "stream_failed"
            /\ error' = Raise("ValueError", "user_message cannot be empty", NoMsg)
            /\ UNCHANGED stream_requests
       ELSE LET inv == _format_list(_dedupe_normalized(inventory))
                um == WithHistory(user_message, history)
            IN  /\ stream_requests' = Append(stream_requests, GenerationPrompt(inv, um))
                /\ pc' = "streaming"
                /\ UNCHANGED error
    /\ UNCHANGED <<normVars, invVars, ontoVars, extractVars, matchVars, clientVars,
                   threadVars, recipe_ingredients, failure, fragments,
                   user_message, inventory, history, requests, raw, raw2, result,
                   data, item, verdict>>

\* line 186: the caller iterates the returned stream; a fragment of the
\* backend reaches it as it is
StreamFragment ==
    /\ pc = "streaming"
    /\ Len(fragments) < MaxSegs
    /\ \E sg \in Segs : fragments' = Append(fragments, sg)
    /\ UNCHANGED <<pc, normVars, invVars, ontoVars, extractVars, matchVars, clientVars,
                   threadVars, recipe_ingredients, failure, stream_requests, shoppingVars>>

\* StreamEnd that parses and validates the collected text
StreamEndValidated ==
    /\ pc = "streaming"
    /\ LET p == _parse_strict_json(StripText(fragments))
           v == validate_shopping_list(p.obj, inventory)
       IN  IF ~p.ok
           THEN pc' = "stream_failed" /\ error' = Raise(p.type, p.text, NoMsg)
           ELSE IF ~v.ok
           THEN pc' = "stream_failed" /\ error' = Raise("ValueError", "Invalid shopping list JSON", v.msg)
           ELSE pc' = "stream_done" /\ UNCHANGED error
    /\ UNCHANGED <<ext, user_message, inventory, history, requests, raw, raw2, result,
                   data, item, verdict>>

\* the stream is exhausted
StreamEnd ==
    /\ pc = "streaming"
    /\ pc' = "stream_done"
    /\ UNCHANGED <<ext, shoppingVars>>

\* the streaming request fails while the caller iterates
StreamBackendError ==
    /\ pc = "streaming"
    /\ failure' = Raise("RequestException", "API request failed", NoMsg)
    /\ error' = failure'
    /\ pc' = "stream_failed"
    /\ UNCHANGED <<normVars, invVars, ontoVars, extractVars, matchVars, clientVars,
                   threadVars, recipe_ingredients, stream_requests, fragments,
                   user_message, inventory, history, requests, raw, raw2, result,
                   data, item, verdict>>

\* what ingredients_to_recipe is called with
RecipeIngredientLists ==
    ListsUpTo({<<>>, <<"-", Space>>, <<"G">>, <<Space, "g">>, <<"m">>}, MaxIngredients)

ShoppingIdle ==
    /\ user_message = <<>> /\ inventory = <<>> /\ history = <<>>
    /\ requests = <<>> /\ raw = <<>> /\ raw2 = <<>>
    /\ result = NoResult /\ error = NoError
    /\ data = Null /\ item = Null /\ verdict = NoVerdict

InitCore ==
    \/ Init
    \/ /\ pc = "stream"
       /\ ExtIdle
       /\ user_message \in UserMessages
       /\ inventory \in Inventories
       /\ history \in Histories
       /\ requests = <<>> /\ raw = <<>> /\ raw2 = <<>>
       /\ result = NoResult /\ error = NoError
       /\ data = Null /\ item = Null /\ verdict = NoVerdict
    \/ /\ pc = "recipe"
       /\ recipe_ingredients \in RecipeIngredientLists
       /\ failure = NoError /\ stream_requests = <<>> /\ fragments = <<>>
       /\ ShoppingIdle
       /\ NormIdle /\ InvIdle /\ OntoIdle /\ ExtractIdle
       /\ MatchIdle /\ ClientIdle /\ ThreadIdle
    \/ /\ pc = "image"
       /\ ShoppingIdle
       /\ ExtIdle

NextCore ==
    \/ Next
    \/ StreamBegin \/ StreamFragment \/ StreamEnd \/ StreamBackendError
    \/ RecipeBegin \/ RecipeReply \/ RecipeBackendError
    \/ ImageBegin \/ ImageReply \/ ImageBackendError

SpecCore == InitCore /\ [][NextCore]_vars

\* C22: a failure of the backend ends the operation in a failure that carries
\* it, with nothing returned: in generate_shopping_list_json on either call,
\* in ingredients_to_recipe and in image_to_ingredients
C22_BackendFailureSurfaced ==
    failure # NoError =>
        /\ pc \in {"failed", "stream_failed", "recipe_failed", "image_failed"}
        /\ error = failure
        /\ result = NoResult

\* no entry of the ingredient list normalizes to a name
NoIngredient ==
    \A j \in 1..Len(recipe_ingredients) :
        recipe_normalize_ingredient(recipe_ingredients[j]) = <<>>

\* C23: generate_shopping_list_json with an empty or blank user message and
\* ingredients_to_recipe with a list that is empty or normalizes to nothing
\* fail with an input error and send no request to the backend
C23_EmptyInputRejected ==
    /\ (pc \in {"call1", "call2", "done", "failed"} /\ Strip(user_message) = <<>>) =>
            /\ pc = "failed"
            /\ error.type = "ValueError"
            /\ requests = <<>> /\ stream_requests = <<>>
    /\ (pc \in {"recipe_call", "recipe_done", "recipe_failed"} /\ NoIngredient) =>
            /\ pc = "recipe_failed"
            /\ error.type = "ValueError"
            /\ requests = <<>> /\ stream_requests = <<>>

\* a list of entries that are all bullets and blanks has been rejected
C23_Witness ==
    /\ pc = "recipe_failed"
    /\ recipe_ingredients # <<>>
    /\ NoIngredient
    /\ requests = <<>>

\* C24: the streaming mode sends one streaming request, no other request, and
\* fails only as the backend fails, never on what the text parses or validates
\* to; generate_shopping_list_json sends no streaming request
C24_ModesNotMixed ==
    /\ Len(stream_requests) <= 1
    /\ pc \in {"streaming", "stream_done", "stream_failed"} =>
            /\ requests = <<>>
            /\ result = NoResult
            /\ (stream_requests # <<>> => error = failure)
    /\ pc \in {"start", "call1", "call2", "done", "failed"} =>
            /\ stream_requests = <<>>
            /\ fragments = <<>>

\* a stream whose text is no JSON object has been handed over in full
C24_Witness ==
    /\ pc = "stream_done"
    /\ Len(stream_requests) = 1
    /\ fragments # <<>>
    /\ ~_parse_strict_json(StripText(fragments)).ok

---------------------------------------------------------------------------
(* detect_ingredients (utils/yolo_client.py): the label list read from the *)
(* JSON object of the detection response.  The object is the sequence of   *)
(* its (key, value) members; a value is null, a number or a list of        *)
(* strings.                                                                *)

MaxLabels == 2

JsonAbsent == [kind |-> "absent", entries |-> <<>>]
JsonNull == [kind |-> "null", entries |-> <<>>]
JsonNumber == [kind |-> "number", entries |-> <<>>]
JsonList(xs) == [kind |-> "list", entries |-> xs]

\* Python's truth value of a response value: None, [] and 0 are false
Truthy(value) ==
    \/ value.kind = "list" /\ value.entries # <<>>
    \/ value.kind = "number"

NotCalled == [state |-> "none", val |-> <<>>]
Returned(xs) == [state |-> "returned", val |-> xs]
Raised == [state |-> "raised", val |-> <<>>]

\* lines 39-40 with only "labels" read
detect_ingredientsLabelsOnly(resp) ==
    LET a == Get(resp, "labels", JsonNull)
        chosen == IF Truthy(a) THEN a ELSE JsonList(<<>>)
    IN  IF chosen.kind # "list" THEN Raised
        ELSE LET kept == SelectSeq(chosen.entries, LAMBDA x : x # <<>>)
             IN  Returned([j \in 1..Len(kept) |-> Lower(Strip(kept[j]))])

\* lines 38-40: data.get("labels") or data.get("ingredients_detected") or [],
\* then the stripped lower-cased strings of its truthy elements; iterating a
\* number raises TypeError
detect_ingredients(resp) ==
    LET a == Get(resp, "labels", JsonNull)
        b == Get(resp, "ingredients_detected", JsonNull)
        chosen == IF Truthy(a) THEN a ELSE IF Truthy(b) THEN b ELSE JsonList(<<>>)
    IN  IF chosen.kind # "list" THEN Raised
        ELSE LET kept == SelectSeq(chosen.entries, LAMBDA x : x # <<>>)
             IN  Returned([j \in 1..Len(kept) |-> Lower(Strip(kept[j]))])

\* the response that carries value under the one field name
ResponseWith(field, value) ==
    IF value.kind = "absent" THEN <<>> ELSE << <<field, value>> >>

\* label strings of a response
ClientLabels == {<<>>, Kiwi, Pea, <<Space, "G">>, <<"M", Space>>}

LabelValues ==
    {JsonAbsent, JsonNull, JsonNumber} \cup {JsonList(xs) : xs \in ListsUpTo(ClientLabels, MaxLabels)}

InitClient ==
    /\ pc = "client"
    /\ label_list \in LabelValues
    /\ via_labels = NotCalled
    /\ via_ingredients_detected = NotCalled
    /\ ShoppingIdle
    /\ NormIdle /\ InvIdle /\ OntoIdle /\ ExtractIdle
    /\ MatchIdle /\ CoreIdle /\ ThreadIdle

\* detect_ingredients on the response {"labels": label_list}
DetectViaLabels ==
    /\ via_labels = NotCalled
    /\ via_labels' = detect_ingredients(ResponseWith("labels", label_list))
    /\ UNCHANGED <<pc, shoppingVars, normVars, invVars, ontoVars, extractVars, matchVars,
                   coreVars, threadVars, label_list, via_ingredients_detected>>

\* detect_ingredients on the response {"ingredients_detected": label_list}
DetectViaIngredientsDetected ==
    /\ via_ingredients_detected = NotCalled
    /\ via_ingredients_detected' =
           detect_ingredients(ResponseWith("ingredients_detected", label_list))
    /\ UNCHANGED <<pc, shoppingVars, normVars, invVars, ontoVars, extractVars, matchVars,
                   coreVars, threadVars, label_list, via_labels>>

NextClient == DetectViaLabels \/ DetectViaIngredientsDetected

SpecClient == InitClient /\ [][NextClient]_vars

\* the response carries no label: no field, null or the empty list
NoLabels == label_list.kind \in {"absent", "null"} \/ label_list = JsonList(<<>>)

\* C25: a label list gives the same returned list under either field name,
\* and a response without labels gives the empty list, no error
C25_FieldsEquivalent ==
    /\ (via_labels # NotCalled /\ via_ingredients_detected # NotCalled) =>
            via_labels = via_ingredients_detected
    /\ (NoLabels /\ via_labels # NotCalled) => via_labels = Returned(<<>>)
    /\ (NoLabels /\ via_ingredients_detected # NotCalled) =>
            via_ingredients_detected = Returned(<<>>)

\* a list of two labels has been read under both names
C25_Witness ==
    /\ label_list.kind = "list"
    /\ Len(label_list.entries) = 2
    /\ via_labels.state = "returned"
    /\ via_labels.val # <<>>
    /\ via_ingredients_detected.state = "returned"

---------------------------------------------------------------------------
(* The corrective request of generate_shopping_list_json                   *)

\* C26: the corrective request carries the inventory text of the first
\* request, the user's request, the first response as received and the
\* validation error of the first response, and the corrective response is
\* judged against the same inventory
C26_CorrectionContext ==
    Len(requests) = 2 =>
        /\ requests[2].template = "correction"
        /\ requests[2].inv = requests[1].inv
        /\ requests[2].inv = _format_list(_dedupe_normalized(inventory))
        /\ \E n \in 0..Len(requests[2].user) : SubSeq(requests[2].user, 1, n) = user_message
        /\ requests[2].bad_output = raw
        /\ requests[2].validation_error = Valid1.msg
        /\ Valid1.msg # NoMsg
        /\ (SecondReceived => (pc = "done" <=> (Parse2.ok /\ Valid2.ok)))

\* the corrective response would pass against an empty inventory and is
\* rejected because it lists an item of the caller's inventory as missing
C26_Witness ==
    /\ pc = "failed"
    /\ SecondReceived
    /\ inventory # <<>>
    /\ requests[2].inv # <<>>
    /\ requests[2].bad_output # <<>>
    /\ Parse2.ok /\ ~Valid2.ok
    /\ validate_shopping_list(Parse2.obj, <<>>).ok

---------------------------------------------------------------------------
(* The built vocabulary of the detection service                           *)

\* the canonicals of the file whose alias list holds a
Listing(file, a) ==
    {c \in Elems(Keys(file.entries)) :
        Get(file.entries, c, NotIterable).iterable /\ InSeq(a, AliasesOf(file, c))}

\* C27: in the built vocabulary every alias maps to the canonical that lists
\* it first in build order and is held once; the prompt list has no
\* duplicate and its elements are the keys of the alias map
C27_FirstCanonicalWins ==
    Loaded =>
        LET a2c == _alias_to_canonical.val
            pl == _prompt_list.val
        IN  /\ \A i, j \in 1..Len(pl) : i # j => pl[i] # pl[j]
            /\ \A i, j \in 1..Len(a2c) : i # j => a2c[i][1] # a2c[j][1]
            /\ Elems(pl) = {a2c[j][1] : j \in 1..Len(a2c)}
            /\ pl = DEFAULT_CLASSES => \A j \in 1..Len(a2c) : a2c[j][2] = a2c[j][1]
            /\ pl # DEFAULT_CLASSES =>
                   \A j \in 1..Len(a2c) :
                       /\ a2c[j][2] \in Listing(ontology_file, a2c[j][1])
                       /\ \A d \in Listing(ontology_file, a2c[j][1]) :
                              KeyRank(ontology_file, a2c[j][2]) <= KeyRank(ontology_file, d)

\* kiwi and pea both list the alias x, kiwi first in the file: x maps to the
\* priority canonical pea and is held once
C27_Witness ==
    /\ Loaded
    /\ ontology_file = Ontology(<< <<Kiwi, Iterable(<< <<Space, "x">>, Kiwi>>)>>,
                                   <<Pea, Iterable(<< <<Space, "x">>, Pea>>)>> >>)
    /\ Get(_alias_to_canonical.val, <<"x">>, <<>>) = Pea
    /\ _prompt_list.val = << <<"x">>, Pea, Kiwi >>

---------------------------------------------------------------------------
(* The extractor's result as normalized names                              *)

\* C28: every name the extractor returns is non-empty and is its own
\* normal form
C28_ExtractedAreNormalized ==
    pc = "extracted" =>
        \A j \in 1..Len(ingredients) :
            /\ ingredients[j] # <<>>
            /\ recipe_normalize_ingredient(ingredients[j]) = ingredients[j]

---------------------------------------------------------------------------
(* The detection service under concurrent requests.  status and detect are *)
(* plain def handlers, which the server runs on the threads of a pool;     *)
(* _load_ontology takes no lock.  A request thread runs _load_ontology     *)
(* statement by statement and then reads the two globals, to set the       *)
(* model's classes (get_model, line 86) or to resolve labels (detect, line *)
(* 149).  One alias of the loop, test and both updates, is one step.       *)

Threads == {"t1", "t2"}

\* the position of a thread and the locals of its _load_ontology
Local(at, keys, canonical, aliases, built) ==
    [at |-> at, keys |-> keys, canonical |-> canonical, aliases |-> aliases, built |-> built]

NotRead == [read |-> FALSE, a2c |-> None, pl |-> None]

DefaultMap == [j \in 1..Len(DEFAULT_CLASSES) |-> <<DEFAULT_CLASSES[j], DEFAULT_CLASSES[j]>>]

\* the ontology files of the service runs
ServiceFiles ==
    { NoOntology, InvalidJson,
      Ontology(<< <<Kiwi, Iterable(<<Kiwi \o <<"s">>, Kiwi>>)>> >>),
      Ontology(<< <<Kiwi, Iterable(<< <<Space, "x">>, Kiwi>>)>>,
                  <<Pea, Iterable(<< <<Space, "x">>, Pea>>)>> >>),
      Ontology(<< <<Pea, NotIterable>>, <<Carrot, Iterable(<<Carrot>>)>> >>) }

InitService ==
    /\ pc = "service"
    /\ ontology_file \in ServiceFiles
    /\ _alias_to_canonical = None
    /\ _prompt_list = None
    /\ detections = <<>>
    /\ labels = <<>>
    /\ tpc = [t \in Threads |-> Local("request", <<>>, <<>>, <<>>, FALSE)]
    /\ seen = [t \in Threads |-> NotRead]
    /\ ShoppingIdle
    /\ NormIdle /\ InvIdle /\ ExtractIdle
    /\ MatchIdle /\ CoreIdle /\ ClientIdle

ServiceFrame ==
    UNCHANGED <<pc, shoppingVars, normVars, invVars, extractVars, matchVars, coreVars,
                clientVars, ontology_file, detections, labels>>

At(t, at) == [tpc EXCEPT ![t].at = at]

\* lines 55-56: if _alias_to_canonical is not None: return
CheckLoaded(t) ==
    /\ tpc[t].at = "request"
    /\ tpc' = IF ~_alias_to_canonical.none THEN At(t, "loaded")
              ELSE [tpc EXCEPT ![t].at = "reset_map", ![t].built = TRUE]
    /\ UNCHANGED <<_alias_to_canonical, _prompt_list, seen>>
    /\ ServiceFrame

\* line 57: _alias_to_canonical = {}
ResetMap(t) ==
    /\ tpc[t].at = "reset_map"
    /\ _alias_to_canonical' = Some(<<>>)
    /\ tpc' = At(t, "reset_list")
    /\ UNCHANGED <<_prompt_list, seen>>
    /\ ServiceFrame

\* line 58: _prompt_list = []
ResetList(t) ==
    /\ tpc[t].at = "reset_list"
    /\ _prompt_list' = Some(<<>>)
    /\ tpc' = At(t, "read_file")
    /\ UNCHANGED <<_alias_to_canonical, seen>>
    /\ ServiceFrame

\* lines 59-63: the file is read and its keys are ordered; no file, or a
\* file that is not JSON (except: pass), leads to line 72
ReadFile(t) ==
    /\ tpc[t].at = "read_file"
    /\ tpc' = IF ontology_file.kind = "object"
              THEN [tpc EXCEPT ![t].at = "next_key",
                               ![t].keys = ordered_keys(ontology_file.entries)]
              ELSE At(t, "fallback")
    /\ UNCHANGED <<_alias_to_canonical, _prompt_list, seen>>
    /\ ServiceFrame

\* lines 64-65: the next canonical and its aliases; a value that cannot be
\* iterated raises (except: pass)
NextKey(t) ==
    /\ tpc[t].at = "next_key"
    /\ tpc' = IF tpc[t].keys = <<>> THEN At(t, "fallback")
              ELSE LET value == Get(ontology_file.entries, Head(tpc[t].keys), NotIterable)
                   IN  IF ~value.iterable THEN At(t, "fallback")
                       ELSE [tpc EXCEPT ![t].at = "next_alias",
                                        ![t].canonical = Head(tpc[t].keys),
                                        ![t].aliases = value.v,
                                        ![t].keys = Tail(tpc[t].keys)]
    /\ UNCHANGED <<_alias_to_canonical, _prompt_list, seen>>
    /\ ServiceFrame

\* lines 66-70: one alias of the inner loop
NextAlias(t) ==
    /\ tpc[t].at = "next_alias"
    /\ IF tpc[t].aliases = <<>>
       THEN /\ tpc' = At(t, "next_key")
            /\ UNCHANGED <<_alias_to_canonical, _prompt_list>>
       ELSE LET a == Strip(Head(tpc[t].aliases))
            IN  /\ tpc' = [tpc EXCEPT ![t].aliases = Tail(tpc[t].aliases)]
                /\ IF a # <<>> /\ ~HasKey(_alias_to_canonical.val, a)
                   THEN /\ _alias_to_canonical' =
                               Some(Append(_alias_to_canonical.val, <<a, tpc[t].canonical>>))
                        /\ _prompt_list' = Some(Append(_prompt_list.val, a))
                   ELSE UNCHANGED <<_alias_to_canonical, _prompt_list>>
    /\ UNCHANGED seen
    /\ ServiceFrame

\* lines 73-74: if not _prompt_list: _prompt_list = list(DEFAULT_CLASSES)
Fallback(t) ==
    /\ tpc[t].at = "fallback"
    /\ IF _prompt_list.val = <<>>
       THEN /\ _prompt_list' = Some(DEFAULT_CLASSES)
            /\ tpc' = At(t, "fallback_map")
       ELSE /\ tpc' = At(t, "loaded")
            /\ UNCHANGED _prompt_list
    /\ UNCHANGED <<_alias_to_canonical, seen>>
    /\ ServiceFrame

\* line 75: _alias_to_canonical = {c: c for c in DEFAULT_CLASSES}
FallbackMap(t) ==
    /\ tpc[t].at = "fallback_map"
    /\ _alias_to_canonical' = Some(DefaultMap)
    /\ tpc' = At(t, "loaded")
    /\ UNCHANGED <<_prompt_list, seen>>
    /\ ServiceFrame

\* the request goes on past _load_ontology and reads the vocabulary
ReadVocabulary(t) ==
    /\ tpc[t].at = "loaded"
    /\ seen' = [seen EXCEPT ![t] = [read |-> TRUE, a2c |-> _alias_to_canonical,
                                    pl |-> _prompt_list]]
    /\ tpc' = At(t, "responded")
    /\ UNCHANGED <<_alias_to_canonical, _prompt_list>>
    /\ ServiceFrame

NextService ==
    \E t \in Threads :
        \/ CheckLoaded(t) \/ ResetMap(t) \/ ResetList(t) \/ ReadFile(t)
        \/ NextKey(t) \/ NextAlias(t) \/ Fallback(t) \/ FallbackMap(t)
        \/ ReadVocabulary(t)

SpecService == InitService /\ [][NextService]_vars

\* the vocabulary one uninterrupted _load_ontology builds from the file
Complete ==
    [read |-> TRUE, a2c |-> Some(LoadedFrom(ontology_file).a2c),
     pl |-> Some(LoadedFrom(ontology_file).pl)]

\* C29: with requests in parallel the vocabulary is built by one of them
\* only, and a request that has gone past _load_ontology has read the
\* complete vocabulary, which the globals still hold
C29_BuiltOnceReadComplete ==
    /\ Cardinality({t \in Threads : tpc[t].built}) <= 1
    /\ \A t \in Threads :
           seen[t].read =>
               /\ seen[t] = Complete
               /\ _alias_to_canonical = Complete.a2c
               /\ _prompt_list = Complete.pl

---------------------------------------------------------------------------
(* The arguments of validate_shopping_list and of                          *)
(* generate_shopping_list_json across a call                               *)

InitFrame == Init \/ InitValidate

NextFrame == Next \/ NextValidate

SpecFrame == InitFrame /\ [][NextFrame]_vars

\* C30: no step of validate_shopping_list or of generate_shopping_list_json,
\* on success or on a failure, changes the caller's inventory list, the
\* candidate object, the other arguments or the inventory file
C30_InputsUnchanged ==
    [][/\ inventory' = inventory
       /\ data' = data
       /\ user_message' = user_message
       /\ history' = history
       /\ inventory_file' = inventory_file]_vars

\* a corrected invocation has returned and the inventory still holds its
\* bullet, its blank entry and its duplicate
C30_Witness ==
    /\ pc = "done"
    /\ Len(requests) = 2
    /\ Len(inventory) = 3
    /\ _dedupe_normalized(inventory) # inventory

=============================================================================
